---- MODULE Spec2Model ----
(***************************************************************************)
(* Model of the rate-limited request scheduler of RiotApiClient            *)
(* (makeRequest / processQueue / executeRequest / handleApiError).         *)
(*                                                                         *)
(* One action is one synchronous run of JavaScript between two awaits.     *)
(* Time is in milliseconds.  A drain loop (one activation of the async     *)
(* function processQueue) is a record in the sequence loops; the code      *)
(* keeps at most one alive, the model can hold several so that this is a   *)
(* property to check and not an assumption.                                *)
(***************************************************************************)
EXTENDS Integers, Sequences, FiniteSets, TLC

\* ---------------------------------------------------------------- bounds
MaxRequests == 3        \* submissions in the small specification
LoadRequests == 101     \* submissions in the steady-environment specification
BurstRequests == 22     \* submissions in the burst specification
MaxQueue == 3           \* requests waiting in the queue at one time
MaxIdle == 1            \* idle gaps (no drain loop alive, time passes)
StartTime == 100000     \* Date.now() when the client is constructed
MaxIdLen == 4           \* characters of a generated identity string
MaxRankedOps == 2       \* overlapping calls of getPlayerRankedInfo
MaxUpdates == 2         \* calls of updatePlayerWithApiData
MaxSelectorCalls == 1   \* calls through the ApiManager, for each client
MaxOps == 1             \* lookups started in the lookup specification
MaxMgrRequests == 2     \* requests of the real client in the manager specification
MaxMockCalls == 2       \* calls of the mock client in the mock specification
MaxGameChecks == 2      \* calls of isPlayerInGame on one player object

\* ------------------------------------------------------ program constants
perSecond == 20
perMinute == 100
SecondMs == 1000
MinuteMs == 60000
InterRequestDelay == 50

\* ------------------------------------------------------------ input sets
Null == "<null>"                         \* JavaScript null (no stored key)
ApiKeys == {"", "abc"}                   \* arguments of setApiKey
Urls == {"/a"}                           \* arguments of makeRequest
ServerStatuses == {200, 404, 429}        \* statuses the upstream answers
Latencies == {0, 30}                     \* ms from fetch to its response
IdleGaps == {1000, 60000}                \* ms passing while nothing runs
Bodies == { [json |-> FALSE, message |-> ""],
            [json |-> TRUE,  message |-> ""],
            [json |-> TRUE,  message |-> "error 404 upstream"] }

NoCall == [fn |-> "", arg |-> "", out |-> ""]
NoMgrCall == [op |-> "", arg |-> "", thrown |-> "", was |-> FALSE]
NoMockOut == [fn |-> "", key |-> "", value |-> ""]
NoMock == [data |-> << >>, calls |-> << >>, out |-> NoMockOut, left |-> 0]
NoReq == [id |-> 0, url |-> "", joined |-> ""]
NoLoop == [pc |-> "none", now |-> 0, wake |-> 0, req |-> NoReq,
           fetching |-> FALSE]

VARIABLES
  apiKey,              \* this.apiKey
  requestQueue,        \* this.requestQueue: sequence of [id, url, joined]
  isProcessing,        \* this.isProcessing
  lastRequestTime,     \* this.lastRequestTime
  requestsThisSecond,  \* this.requestsThisSecond
  requestsThisMinute,  \* this.requestsThisMinute
  minuteResetTime,     \* this.minuteResetTime
  loops,               \* alive activations of processQueue
  clock,               \* Date.now()
  server,              \* upstream: the answers [status, latency, body] it
                       \* may give
  nextId,              \* number of the next makeRequest call
  dispatched,          \* calls of executeRequest: [id, at, fetch]
  fetchLog,            \* calls of fetch: [id, url, token]
  responses,           \* answers of the upstream: [id, status]
  settled,             \* calls of resolve / reject: [id, ok, val]
  inFlight,            \* ids whose executeRequest has not completed
  reqLeft,             \* submissions the environment may still make
  idleLeft,            \* idle gaps the environment may still take
  call,                \* one call of a pure function: [fn, arg, out]
  ops,                 \* calls of getPlayerRankedInfo / isPlayerInGame
  players,             \* the player objects handed to isPlayerInGame
  useMockApi,          \* ApiManager.useMockApi
  mgrCall,             \* the latest call on the ApiManager: [op, arg, thrown, was]
  opsLeft,             \* lookups the environment may still start
  mock                 \* the MockRiotApiClient: [data, calls, out, left]

vars == <<apiKey, requestQueue, isProcessing, lastRequestTime,
          requestsThisSecond, requestsThisMinute, minuteResetTime, loops,
          clock, server, nextId, dispatched, fetchLog, responses, settled,
          inFlight, reqLeft, idleLeft, call, ops, players, useMockApi,
          mgrCall, opsLeft, mock>>

\* what the scheduler's own steps leave alone
ext == <<call, ops, players, useMockApi, mgrCall, opsLeft, mock>>

\* all of the scheduler's variables
schedVars == <<apiKey, requestQueue, isProcessing, lastRequestTime,
               requestsThisSecond, requestsThisMinute, minuteResetTime, loops,
               clock, server, nextId, dispatched, fetchLog, responses, settled,
               inFlight, reqLeft, idleLeft>>

\* ---------------------------------------------------------------- helpers
Undefined == "<undefined>"               \* JavaScript undefined
Truthy(k) == k # Null /\ k # "" /\ k # Undefined

Max(a, b) == IF a > b THEN a ELSE b

RemoveAt(s, i) == SubSeq(s, 1, i - 1) \o SubSeq(s, i + 1, Len(s))

\* sleep(ms) called at time t: the time at which the timer fires
sleep(t, ms) == t + Max(ms, 0)

hasApiKey(k) == Truthy(k)

\* The scheduler's fields as one record, so that a run of several statements
\* can be written as a composition of functions on it.
Sched ==
  [requestQueue |-> requestQueue, isProcessing |-> isProcessing,
   lastRequestTime |-> lastRequestTime,
   requestsThisSecond |-> requestsThisSecond,
   requestsThisMinute |-> requestsThisMinute,
   minuteResetTime |-> minuteResetTime,
   dispatched |-> dispatched, fetchLog |-> fetchLog,
   settled |-> settled, inFlight |-> inFlight]

Commit(s) ==
  /\ requestQueue' = s.requestQueue
  /\ isProcessing' = s.isProcessing
  /\ lastRequestTime' = s.lastRequestTime
  /\ requestsThisSecond' = s.requestsThisSecond
  /\ requestsThisMinute' = s.requestsThisMinute
  /\ minuteResetTime' = s.minuteResetTime
  /\ dispatched' = s.dispatched
  /\ fetchLog' = s.fetchLog
  /\ settled' = s.settled
  /\ inFlight' = s.inFlight

\* ------------------------------------------------------------- transport
\* handleApiError: message of the Error built for a non-2xx response
handleApiError(status, body) ==
  LET default == "API Error " \o ToString(status)
      parsed == IF body.json /\ body.message # "" THEN body.message ELSE default
  IN  CASE status = 400 -> "Bad Request - Invalid parameters"
        [] status = 401 -> "Unauthorized - Invalid API key"
        [] status = 403 -> "Forbidden - API key expired or invalid"
        [] status = 404 -> "Not Found - Player not found"
        [] status = 429 -> "Rate Limited - Too many requests"
        [] status = 500 -> "Internal Server Error - Riot API issue"
        [] status = 503 -> "Service Unavailable - Riot API maintenance"
        [] OTHER -> parsed

\* response.ok
ResponseOk(status) == status >= 200 /\ status <= 299

\* (mutation) the key check left out
executeRequestStartNoCheck(key, req) ==
  [fetch |-> TRUE,
   calls |-> << [id |-> req.id, url |-> req.url, token |-> key] >>]

\* executeRequest up to its first await: the key check and the fetch call
executeRequestStart(key, req) ==
  IF ~Truthy(key)
  THEN [fetch |-> FALSE, calls |-> << >>]
  ELSE [fetch |-> TRUE,
        calls |-> << [id |-> req.id, url |-> req.url, token |-> key] >>]

\* the message of the SyntaxError response.json() throws on the body
\* "this is <not> json"
NotJsonMessage ==
  "Unexpected token 'h', \"this is <not> json\" is not valid JSON"

\* executeRequest after the await: the value returned or the error thrown;
\* on a 2xx answer response.json() parses the body, or throws
executeRequestEnd(fetching, status, body) ==
  IF ~fetching THEN [ok |-> FALSE, val |-> "API key not set"]
  ELSE IF ResponseOk(status)
       THEN IF body.json THEN [ok |-> TRUE, val |-> "json"]
            ELSE [ok |-> FALSE, val |-> NotJsonMessage]
  ELSE [ok |-> FALSE, val |-> handleApiError(status, body)]

\* ------------------------------------------------------------ drain loop
\* (mutation) pop() in place of shift(): the newest request first
shiftLast(q) == [head |-> q[Len(q)], rest |-> SubSeq(q, 1, Len(q) - 1)]

\* requestQueue.shift()
shift(q) == [head |-> Head(q), rest |-> Tail(q)]

\* "Process next request" up to the await of executeRequest
Dispatch(s, t, now, key) ==
  IF Len(s.requestQueue) = 0
  THEN [s |-> s, loop |-> [NoLoop EXCEPT !.pc = "crashed"]]
  ELSE LET sh == shift(s.requestQueue)
           ex == executeRequestStart(key, sh.head)
       IN  [s |-> [s EXCEPT
                     !.requestQueue = sh.rest,
                     !.dispatched = Append(@, [id |-> sh.head.id, at |-> t,
                                               fetch |-> ex.fetch]),
                     !.fetchLog = @ \o ex.calls,
                     !.inFlight = @ \cup {sh.head.id}],
            loop |-> [pc |-> "exec", now |-> now, wake |-> 0,
                      req |-> sh.head, fetching |-> ex.fetch]]

\* the per-minute limit check
MinuteLimit(s, t, now, key) ==
  IF s.requestsThisMinute >= perMinute
  THEN [s |-> s,
        loop |-> [NoLoop EXCEPT !.pc = "minSleep", !.now = now,
                                !.wake = sleep(t, s.minuteResetTime - now)]]
  ELSE Dispatch(s, t, now, key)

\* (mutation) the dispatch after the per-minute sleep without the new window
AfterMinuteSleepNoReset(s, t, now, key) == Dispatch(s, t, now, key)

\* after the per-minute sleep
AfterMinuteSleep(s, t, now, key) ==
  Dispatch([s EXCEPT !.requestsThisMinute = 0,
                     !.minuteResetTime = t + MinuteMs], t, now, key)

\* (mutation) the per-second counter not reset after the sleep
AfterSecondSleepNoReset(s, t, now, key) == MinuteLimit(s, t, now, key)

\* after the per-second sleep
AfterSecondSleep(s, t, now, key) ==
  MinuteLimit([s EXCEPT !.requestsThisSecond = 0], t, now, key)

\* (mutation) the counter reset, the boundary left where it was
MinuteWindowKeepBoundary(s, now) ==
  IF now > s.minuteResetTime
  THEN [s EXCEPT !.requestsThisMinute = 0]
  ELSE s

\* the minute-window reset at the top of an iteration
MinuteWindow(s, now) ==
  IF now > s.minuteResetTime
  THEN [s EXCEPT !.requestsThisMinute = 0, !.minuteResetTime = now + MinuteMs]
  ELSE s

\* (mutation) the per-second counter kept when a full second has elapsed
SecondWindowKeepCount(s, t, now, key) ==
  IF now - s.lastRequestTime < SecondMs
  THEN IF s.requestsThisSecond >= perSecond
       THEN [s |-> s,
             loop |-> [NoLoop EXCEPT !.pc = "secSleep", !.now = now,
                         !.wake = sleep(t, SecondMs - (now - s.lastRequestTime))]]
       ELSE MinuteLimit(s, t, now, key)
  ELSE MinuteLimit(s, t, now, key)

\* the per-second check
SecondWindow(s, t, now, key) ==
  IF now - s.lastRequestTime < SecondMs
  THEN IF s.requestsThisSecond >= perSecond
       THEN [s |-> s,
             loop |-> [NoLoop EXCEPT !.pc = "secSleep", !.now = now,
                         !.wake = sleep(t, SecondMs - (now - s.lastRequestTime))]]
       ELSE MinuteLimit(s, t, now, key)
  ELSE MinuteLimit([s EXCEPT !.requestsThisSecond = 0], t, now, key)

\* (mutation) isProcessing cleared at the top of every iteration
LoopTopFlagDown(s, t, key) ==
  IF Len(s.requestQueue) > 0
  THEN SecondWindow(MinuteWindow([s EXCEPT !.isProcessing = FALSE], t),
                    t, t, key)
  ELSE [s |-> [s EXCEPT !.isProcessing = FALSE],
        loop |-> [NoLoop EXCEPT !.pc = "done"]]

\* the while condition and one iteration up to its first await
LoopTop(s, t, key) ==
  IF Len(s.requestQueue) > 0
  THEN SecondWindow(MinuteWindow(s, t), t, t, key)
  ELSE [s |-> [s EXCEPT !.isProcessing = FALSE],
        loop |-> [NoLoop EXCEPT !.pc = "done"]]

\* (mutation) "if" in place of "while": the loop ends after one request
AfterDelayOnce(s, t, key) ==
  [s |-> [s EXCEPT !.isProcessing = FALSE],
   loop |-> [NoLoop EXCEPT !.pc = "done"]]

\* the end of an iteration: back to the while condition
AfterDelay(s, t, key) == LoopTop(s, t, key)

\* (mutation) the guard without the isProcessing test
GuardNoFlag(s) == Len(s.requestQueue) = 0

\* the guard of processQueue
Guard(s) == s.isProcessing \/ Len(s.requestQueue) = 0

\* (mutation) isProcessing never set
processQueueNoFlag(s, t, key) ==
  IF Guard(s) THEN [s |-> s, loop |-> NoLoop]
  ELSE LoopTop(s, t, key)

\* processQueue() as called by makeRequest, up to its first await
processQueue(s, t, key) ==
  IF Guard(s) THEN [s |-> s, loop |-> NoLoop]
  ELSE LoopTop([s EXCEPT !.isProcessing = TRUE], t, key)

\* (mutation) no delay between two requests
AfterExecuteNoDelay(s, t, loop, out) ==
  LET s1 == IF out.ok
            THEN [s EXCEPT !.requestsThisSecond = @ + 1,
                           !.requestsThisMinute = @ + 1,
                           !.lastRequestTime = t]
            ELSE s
  IN  [s |-> [s1 EXCEPT
                !.settled = Append(@, [id |-> loop.req.id, ok |-> out.ok,
                                       val |-> out.val]),
                !.inFlight = @ \ {loop.req.id}],
       loop |-> [loop EXCEPT !.pc = "delay", !.wake = t]]

\* (mutation) the error rethrown after reject: the loop dies on a failure
AfterExecuteStop(s, t, loop, out) ==
  LET s1 == IF out.ok
            THEN [s EXCEPT !.requestsThisSecond = @ + 1,
                           !.requestsThisMinute = @ + 1,
                           !.lastRequestTime = t]
            ELSE s
  IN  [s |-> [s1 EXCEPT
                !.settled = Append(@, [id |-> loop.req.id, ok |-> out.ok,
                                       val |-> out.val]),
                !.inFlight = @ \ {loop.req.id}],
       loop |-> IF out.ok
                THEN [loop EXCEPT !.pc = "delay",
                                  !.wake = sleep(t, InterRequestDelay)]
                ELSE [NoLoop EXCEPT !.pc = "crashed"]]

\* (mutation) a rate-limited request put back in the queue
AfterExecuteRetry(s, t, loop, out) ==
  LET s1 == IF out.ok
            THEN [s EXCEPT !.requestsThisSecond = @ + 1,
                           !.requestsThisMinute = @ + 1,
                           !.lastRequestTime = t]
            ELSE s
      again == ~out.ok /\ out.val = "Rate Limited - Too many requests"
  IN  [s |-> [s1 EXCEPT
                !.settled = IF again THEN @
                            ELSE Append(@, [id |-> loop.req.id, ok |-> out.ok,
                                            val |-> out.val]),
                !.requestQueue = IF again THEN Append(@, loop.req) ELSE @,
                !.inFlight = @ \ {loop.req.id}],
       loop |-> [loop EXCEPT !.pc = "delay",
                             !.wake = sleep(t, InterRequestDelay)]]

\* (mutation) the counters and the time updated for a failure too
AfterExecuteCountAll(s, t, loop, out) ==
  [s |-> [s EXCEPT
            !.requestsThisSecond = @ + 1,
            !.requestsThisMinute = @ + 1,
            !.lastRequestTime = t,
            !.settled = Append(@, [id |-> loop.req.id, ok |-> out.ok,
                                   val |-> out.val]),
            !.inFlight = @ \ {loop.req.id}],
   loop |-> [loop EXCEPT !.pc = "delay",
                         !.wake = sleep(t, InterRequestDelay)]]

\* (mutation) the inter-request delay skipped after a failure
AfterExecuteDelayOnSuccess(s, t, loop, out) ==
  LET s1 == IF out.ok
            THEN [s EXCEPT !.requestsThisSecond = @ + 1,
                           !.requestsThisMinute = @ + 1,
                           !.lastRequestTime = t]
            ELSE s
  IN  [s |-> [s1 EXCEPT
                !.settled = Append(@, [id |-> loop.req.id, ok |-> out.ok,
                                       val |-> out.val]),
                !.inFlight = @ \ {loop.req.id}],
       loop |-> [loop EXCEPT !.pc = "delay",
                             !.wake = IF out.ok
                                      THEN sleep(t, InterRequestDelay)
                                      ELSE t]]

\* try / catch around executeRequest, then the call of sleep(50)
AfterExecute(s, t, loop, out) ==
  LET s1 == IF out.ok
            THEN [s EXCEPT !.requestsThisSecond = @ + 1,
                           !.requestsThisMinute = @ + 1,
                           !.lastRequestTime = t]
            ELSE s
  IN  [s |-> [s1 EXCEPT
                !.settled = Append(@, [id |-> loop.req.id, ok |-> out.ok,
                                       val |-> out.val]),
                !.inFlight = @ \ {loop.req.id}],
       loop |-> [loop EXCEPT !.pc = "delay",
                             !.wake = sleep(t, InterRequestDelay)]]

\* ---------------------------------------------------------------- actions
Alive(l) == l.pc \in {"secSleep", "minSleep", "exec", "delay"}

\* loop i continues as r.loop (or ends), the fields become r.s
Continue(i, r) ==
  /\ Commit(r.s)
  /\ loops' = IF Alive(r.loop) THEN [loops EXCEPT ![i] = r.loop]
              ELSE RemoveAt(loops, i)

\* how a submission finds the scheduler: no drain loop running ("idle"), a
\* loop running and requests waiting ("queued"), a loop running and the queue
\* already emptied by it ("drained")
Joined ==
  IF ~isProcessing THEN "idle"
  ELSE IF requestQueue = << >> THEN "drained" ELSE "queued"

\* makeRequest(url): push, then processQueue()
makeRequest(url) ==
  /\ reqLeft > 0
  /\ Len(requestQueue) < MaxQueue
  /\ LET pushed == [Sched EXCEPT
                      !.requestQueue = Append(@, [id |-> nextId, url |-> url,
                                                  joined |-> Joined])]
         r == processQueue(pushed, clock, apiKey)
     IN  /\ Commit(r.s)
         /\ loops' = IF Alive(r.loop) THEN Append(loops, r.loop) ELSE loops
  /\ nextId' = nextId + 1
  /\ reqLeft' = reqLeft - 1
  /\ UNCHANGED <<apiKey, clock, server, responses, idleLeft>>

\* the timer of the per-second sleep fires
WakeSecond(i) ==
  /\ loops[i].pc = "secSleep"
  /\ LET t == Max(clock, loops[i].wake)
     IN  /\ clock' = t
         /\ Continue(i, AfterSecondSleep(Sched, t, loops[i].now, apiKey))
  /\ UNCHANGED <<apiKey, server, nextId, responses, reqLeft, idleLeft>>

\* the timer of the per-minute sleep fires
WakeMinute(i) ==
  /\ loops[i].pc = "minSleep"
  /\ LET t == Max(clock, loops[i].wake)
     IN  /\ clock' = t
         /\ Continue(i, AfterMinuteSleep(Sched, t, loops[i].now, apiKey))
  /\ UNCHANGED <<apiKey, server, nextId, responses, reqLeft, idleLeft>>

\* executeRequest completes: the upstream answers, or the thrown error arrives
Complete(i, answer, body) ==
  /\ loops[i].pc = "exec"
  /\ LET t == IF loops[i].fetching THEN clock + answer.latency ELSE clock
         out == executeRequestEnd(loops[i].fetching, answer.status, body)
     IN  /\ clock' = t
         /\ responses' = IF loops[i].fetching
                         THEN Append(responses, [id |-> loops[i].req.id,
                                                 status |-> answer.status])
                         ELSE responses
         /\ Continue(i, AfterExecute(Sched, t, loops[i], out))
  /\ UNCHANGED <<apiKey, server, nextId, reqLeft, idleLeft>>

\* the timer of the inter-request delay fires
WakeDelay(i) ==
  /\ loops[i].pc = "delay"
  /\ LET t == Max(clock, loops[i].wake)
     IN  /\ clock' = t
         /\ Continue(i, AfterDelay(Sched, t, apiKey))
  /\ UNCHANGED <<apiKey, server, nextId, responses, reqLeft, idleLeft>>

\* setApiKey(k)
setApiKey(k) ==
  /\ apiKey # k
  /\ apiKey' = k
  /\ UNCHANGED <<requestQueue, isProcessing, lastRequestTime,
                 requestsThisSecond, requestsThisMinute, minuteResetTime,
                 loops, clock, server, nextId, dispatched, fetchLog, responses,
                 settled, inFlight, reqLeft, idleLeft>>

\* time passes while no drain loop is alive
Idle(d) ==
  /\ idleLeft > 0
  /\ loops = << >>
  /\ clock' = clock + d
  /\ idleLeft' = idleLeft - 1
  /\ UNCHANGED <<apiKey, requestQueue, isProcessing, lastRequestTime,
                 requestsThisSecond, requestsThisMinute, minuteResetTime,
                 loops, server, nextId, dispatched, fetchLog, responses,
                 settled, inFlight, reqLeft>>

\* ---------------------------------------------------------- specification
\* the constructor
Constructed ==
  /\ apiKey \in {Null, "abc"}
  /\ requestQueue = << >>
  /\ isProcessing = FALSE
  /\ lastRequestTime = 0
  /\ requestsThisSecond = 0
  /\ requestsThisMinute = 0
  /\ minuteResetTime = StartTime + MinuteMs
  /\ loops = << >>
  /\ clock = StartTime
  /\ nextId = 1
  /\ dispatched = << >>
  /\ fetchLog = << >>
  /\ responses = << >>
  /\ settled = << >>
  /\ inFlight = {}

\* a run of the RiotApiClient alone: no ApiManager is constructed and no
\* lookup is started
NoLookups ==
  /\ ops = << >>
  /\ players = << >>
  /\ useMockApi = Null
  /\ mgrCall = NoMgrCall
  /\ opsLeft = 0
  /\ mock = NoMock

Init ==
  /\ Constructed
  /\ server = [status : ServerStatuses, latency : Latencies, body : Bodies]
  /\ reqLeft = MaxRequests
  /\ idleLeft = MaxIdle
  /\ call = NoCall
  /\ NoLookups

\* a steady upstream: one answer for every request (of the bodies that lead
\* executeRequest to the same outcome, one is kept)
InitLoad ==
  /\ Constructed
  /\ \E a \in [status : ServerStatuses, latency : Latencies,
                body : {b \in Bodies : b.message = ""}] :
       /\ ResponseOk(a.status) \/ ~a.body.json
       /\ server = {a}
  /\ reqLeft = LoadRequests
  /\ idleLeft = 0
  /\ call = NoCall
  /\ NoLookups

LoopStep ==
  /\ \E i \in DOMAIN loops :
       \/ WakeSecond(i)
       \/ WakeMinute(i)
       \/ \E a \in server : Complete(i, a, a.body)
       \/ WakeDelay(i)
  /\ UNCHANGED ext

Submit == (\E u \in Urls : makeRequest(u)) /\ UNCHANGED ext

Next ==
  \/ Submit
  \/ LoopStep
  \/ \E k \in ApiKeys : setApiKey(k) /\ UNCHANGED ext
  \/ \E d \in IdleGaps : Idle(d) /\ UNCHANGED ext

NextLoad ==
  \/ makeRequest("/a") /\ UNCHANGED ext
  \/ LoopStep

\* a burst of requests against one server behaviour, with pauses between
\* the drain loops
InitBurst ==
  /\ Constructed
  /\ \E a \in [status : ServerStatuses, latency : Latencies,
                body : {b \in Bodies : b.message = ""}] :
       /\ ResponseOk(a.status) \/ ~a.body.json
       /\ server = {a}
  /\ reqLeft = BurstRequests
  /\ idleLeft = MaxIdle
  /\ call = NoCall
  /\ NoLookups

NextBurst ==
  \/ makeRequest("/a") /\ UNCHANGED ext
  \/ LoopStep
  \/ \E d \in IdleGaps : Idle(d) /\ UNCHANGED ext

Spec == Init /\ [][Next]_vars

SpecBurst == InitBurst /\ [][NextBurst]_vars

SpecLoad == InitLoad /\ [][NextLoad]_vars

FairSpec == Spec /\ WF_vars(LoopStep)

\* ------------------------------------------------------- pure functions

\* position of the first occurrence of the character c in s, 0 if none
IndexOf(s, c) ==
  LET at == { i \in 1..Len(s) : SubSeq(s, i, i) = c }
  IN  IF at = {} THEN 0 ELSE CHOOSE i \in at : \A j \in at : i <= j

\* String.prototype.split with a one-character separator
RECURSIVE split(_, _)
split(s, sep) ==
  LET i == IndexOf(s, sep)
  IN  IF i = 0 THEN << s >>
      ELSE << SubSeq(s, 1, i - 1) >> \o split(SubSeq(s, i + 1, Len(s)), sep)

\* PlayerUtils.parseRiotId: const [gameName, tagLine] = riotId.split('#')
parseRiotId(riotId) ==
  LET parts == split(riotId, "#")
  IN  [gameName |-> parts[1],
       tagLine |-> IF Len(parts) >= 2 THEN parts[2] ELSE Undefined]

\* String.prototype.includes
Includes(s, sub) ==
  \E i \in 1..(Len(s) - Len(sub) + 1) : SubSeq(s, i, i + Len(sub) - 1) = sub

\* the strings of at most n characters of the alphabet
RECURSIVE StringsUpTo(_)
StringsUpTo(n) ==
  IF n = 0 THEN {""}
  ELSE LET shorter == StringsUpTo(n - 1)
       IN  shorter \cup { x \o c : x \in shorter, c \in {"a", "B", "#"} }

RiotIds == StringsUpTo(MaxIdLen) \cup {"Foo#NA1", "NoSeparator", "a#b#c"}

ErrorStatuses == {400, 401, 403, 404, 429, 500, 503, 418, 502, 504}
ErrorBodies == Bodies \cup
  { [json |-> TRUE, message |-> "upstream says no"],
    [json |-> TRUE, message |-> "Not Found - Player not found"] }

NotCalled == [state |-> "pending", value |-> ""]

\* a call of parseRiotId: it returns for every string
CallParseRiotId ==
  /\ call.fn = "parseRiotId"
  /\ call.out.state = "pending"
  /\ call' = [call EXCEPT !.out = [state |-> "returned",
                                   value |-> parseRiotId(call.arg)]]
  /\ UNCHANGED schedVars
  /\ UNCHANGED <<ops, players, useMockApi, mgrCall, opsLeft, mock>>

\* a call of handleApiError: it returns new Error(message)
CallHandleApiError ==
  /\ call.fn = "handleApiError"
  /\ call.out.state = "pending"
  /\ call' = [call EXCEPT !.out =
                 [state |-> "returned",
                  value |-> handleApiError(call.arg.status, call.arg.body)]]
  /\ UNCHANGED schedVars
  /\ UNCHANGED <<ops, players, useMockApi, mgrCall, opsLeft, mock>>

InitCalls ==
  /\ Constructed
  /\ server = [status : ServerStatuses, latency : Latencies, body : Bodies]
  /\ reqLeft = 0
  /\ idleLeft = 0
  /\ NoLookups
  /\ \/ \E r \in RiotIds :
          call = [fn |-> "parseRiotId", arg |-> r, out |-> NotCalled]
     \/ \E st \in ErrorStatuses, b \in ErrorBodies :
          call = [fn |-> "handleApiError",
                  arg |-> [status |-> st, body |-> b], out |-> NotCalled]

NextCalls ==
  \/ CallParseRiotId
  \/ CallHandleApiError

SpecCalls == InitCalls /\ [][NextCalls]_vars

\* ------------------------------------------------------ MockRiotApiClient
\* Math.random() in thousandths; the values drawn for one use
RandomEnds == {0, 999}                   \* a choice or a range: its two ends
RandomSpread == {0, 500, 999}            \* a range: its ends and its middle
RandomGate == {299, 300}                 \* Math.random() < 0.3
RandomInGame == {99, 100}                \* Math.random() < 0.1

\* RandomUtils.randomInt(min, max) when Math.random() gives r / 1000
randomInt(min, max, r) == ((r * (max - min + 1)) \div 1000) + min

\* RandomUtils.randomChoice(array) when Math.random() gives r / 1000
randomChoice(array, r) == array[((r * Len(array)) \div 1000) + 1]

UpperCase == "ABCDEFGHIJKLMNOPQRSTUVWXYZ"
LowerCase == "abcdefghijklmnopqrstuvwxyz"

\* the lower-case letter of each upper-case letter
LowerOf ==
  [c \in { SubSeq(UpperCase, i, i) : i \in 1..Len(UpperCase) } |->
     LET i == IndexOf(UpperCase, c) IN SubSeq(LowerCase, i, i)]

\* String.prototype.toLowerCase
RECURSIVE toLowerCase(_)
toLowerCase(s) ==
  IF s = "" THEN ""
  ELSE LET c == SubSeq(s, 1, 1)
       IN  (IF c \in DOMAIN LowerOf THEN LowerOf[c] ELSE c)
             \o toLowerCase(SubSeq(s, 2, Len(s)))

\* initializeMockData: the entries player0 .. player4
mockPlayers ==
  << [tier |-> "SILVER", rank |-> "II", lp |-> 45, wins |-> 12, losses |-> 8],
     [tier |-> "GOLD", rank |-> "IV", lp |-> 78, wins |-> 25, losses |-> 18],
     [tier |-> "BRONZE", rank |-> "I", lp |-> 23, wins |-> 8, losses |-> 12],
     [tier |-> "PLATINUM", rank |-> "III", lp |-> 56, wins |-> 45, losses |-> 32],
     [tier |-> "IRON", rank |-> "II", lp |-> 67, wins |-> 5, losses |-> 15] >>

initializeMockData ==
  [k \in { "player" \o ToString(i - 1) : i \in DOMAIN mockPlayers } |->
     mockPlayers[CHOOSE i \in DOMAIN mockPlayers : k = "player" \o ToString(i - 1)]]

tiers == << "IRON", "BRONZE", "SILVER", "GOLD", "PLATINUM" >>
ranks == << "IV", "III", "II", "I" >>

\* the data generated for a name not seen before
newMockData(r) ==
  [tier |-> randomChoice(tiers, r.tier), rank |-> randomChoice(ranks, r.rank),
   lp |-> randomInt(0, 100, r.lp), wins |-> randomInt(5, 50, r.wins),
   losses |-> randomInt(5, 50, r.losses)]

Min(a, b) == IF a < b THEN a ELSE b

\* (mutation) the points not clamped
progressNoClamp(d, r) ==
  [d EXCEPT !.wins = @ + randomInt(0, 2, r.dWins),
            !.losses = @ + randomInt(0, 1, r.dLosses),
            !.lp = @ + randomInt(-10, 15, r.dLp)]

\* (mutation) wins drawn from -1 .. 2
progressLosingWins(d, r) ==
  [d EXCEPT !.wins = @ + randomInt(-1, 2, r.dWins),
            !.losses = @ + randomInt(0, 1, r.dLosses),
            !.lp = Max(0, Min(100, @ + randomInt(-10, 15, r.dLp)))]

\* "simulate some progression": the body of if (Math.random() < 0.3)
progress(d, r) ==
  [d EXCEPT !.wins = @ + randomInt(0, 2, r.dWins),
            !.losses = @ + randomInt(0, 1, r.dLosses),
            !.lp = Max(0, Min(100, @ + randomInt(-10, 15, r.dLp)))]

\* (mutation) the data stored under the name as it was given
mockGetPlayerRankedInfoCaseKey(data, riotId, r, t) ==
  LET gameName == parseRiotId(riotId).gameName
      key == gameName
      found == IF key \in DOMAIN data THEN data[key] ELSE newMockData(r)
      d == IF r.gate < 300 THEN progress(found, r) ELSE found
  IN  [data |-> [k \in DOMAIN data \cup {key} |-> IF k = key THEN d ELSE data[k]],
       key |-> key,
       value |-> [summonerId |-> "summoner_" \o key, summonerName |-> gameName,
                  summonerLevel |-> randomInt(30, 200, r.level),
                  tier |-> d.tier, rank |-> d.rank, leaguePoints |-> d.lp,
                  wins |-> d.wins, losses |-> d.losses,
                  veteran |-> r.veteran < 100, inactive |-> r.inactive < 50,
                  freshBlood |-> r.freshBlood < 100,
                  hotStreak |-> r.hotStreak < 150,
                  lastUpdated |-> t]]

\* MockRiotApiClient.getPlayerRankedInfo after its sleep: the new mockData
\* and the record returned; r holds the values of Math.random(), t the time
mockGetPlayerRankedInfo(data, riotId, r, t) ==
  LET gameName == parseRiotId(riotId).gameName
      key == toLowerCase(gameName)
      found == IF key \in DOMAIN data THEN data[key] ELSE newMockData(r)
      d == IF r.gate < 300 THEN progress(found, r) ELSE found
  IN  [data |-> [k \in DOMAIN data \cup {key} |-> IF k = key THEN d ELSE data[k]],
       key |-> key,
       value |-> [summonerId |-> "summoner_" \o key, summonerName |-> gameName,
                  summonerLevel |-> randomInt(30, 200, r.level),
                  tier |-> d.tier, rank |-> d.rank, leaguePoints |-> d.lp,
                  wins |-> d.wins, losses |-> d.losses,
                  veteran |-> r.veteran < 100, inactive |-> r.inactive < 50,
                  freshBlood |-> r.freshBlood < 100,
                  hotStreak |-> r.hotStreak < 150,
                  lastUpdated |-> t]]

MockIds == {"Player0#NA1", "Foo#NA1"}    \* riotId arguments of the mock calls

\* the MockRiotApiClient after construction; calls are the activations
\* asleep, out is the latest value returned, left bounds the calls
MockConstructed ==
  [data |-> initializeMockData, calls |-> << >>, out |-> NoMockOut, left |-> 0]

\* values of Math.random() during one getPlayerRankedInfo: the draws that
\* decide the points and the progression vary one by one, the others
\* together; those of a branch not taken are not drawn
MockDraws(known) ==
  LET step == [gate : {299}, dWins : RandomSpread, dLosses : RandomEnds,
               dLp : RandomSpread]
             \cup [gate : {300}, dWins : {0}, dLosses : {0}, dLp : {0}]
  IN  { [tier |-> IF known THEN 0 ELSE o, rank |-> IF known THEN 0 ELSE o,
         lp |-> IF known THEN 0 ELSE p,
         wins |-> IF known THEN 0 ELSE o, losses |-> IF known THEN 0 ELSE o,
         level |-> o, veteran |-> o, inactive |-> o, freshBlood |-> o,
         hotStreak |-> o, gate |-> st.gate, dWins |-> st.dWins,
         dLosses |-> st.dLosses, dLp |-> st.dLp] :
        o \in RandomEnds, p \in RandomSpread, st \in step }

\* a call through the ApiManager while the mock client is the current one,
\* up to await this.sleep(ms); p is the player object passed (0: none)
MockCallOn(fn, riotId, ms, p) ==
  /\ useMockApi = TRUE
  /\ mock.left > 0
  /\ mock' = [mock EXCEPT
                !.calls = Append(@, [fn |-> fn, riotId |-> riotId,
                                     wake |-> clock + ms, player |-> p]),
                !.left = @ - 1]
  /\ UNCHANGED schedVars
  /\ UNCHANGED <<call, ops, players, useMockApi, mgrCall, opsLeft>>

MockCall(fn, riotId, ms) == MockCallOn(fn, riotId, ms, 0)

MockStartRanked(riotId) == MockCall("getPlayerRankedInfo", riotId, 500)
MockStartInGame == MockCall("isPlayerInGame", "", 200)

\* the timer of call c is the next one to fire
MockTimerFires(c) ==
  /\ c \in DOMAIN mock.calls
  /\ \A d \in DOMAIN mock.calls : mock.calls[c].wake <= mock.calls[d].wake
  /\ clock' = Max(clock, mock.calls[c].wake)
  /\ UNCHANGED <<apiKey, requestQueue, isProcessing, lastRequestTime,
                 requestsThisSecond, requestsThisMinute, minuteResetTime,
                 loops, server, nextId, dispatched, fetchLog, responses,
                 settled, inFlight, reqLeft, idleLeft>>
  /\ UNCHANGED <<call, ops, players, useMockApi, mgrCall, opsLeft>>

\* the name of call c has an entry in mockData
Known(c) ==
  toLowerCase(parseRiotId(mock.calls[c].riotId).gameName) \in DOMAIN mock.data

\* MockRiotApiClient.getPlayerRankedInfo from the end of its sleep, with the
\* values r of Math.random()
MockReturnRankedWith(c, r) ==
  /\ MockTimerFires(c)
  /\ mock.calls[c].fn = "getPlayerRankedInfo"
  /\ LET res == mockGetPlayerRankedInfo(mock.data, mock.calls[c].riotId, r,
                                        clock')
     IN  mock' = [mock EXCEPT
                    !.data = res.data,
                    !.calls = RemoveAt(@, c),
                    !.out = [fn |-> "getPlayerRankedInfo",
                             key |-> res.key, value |-> res.value]]

MockReturnRanked(c) ==
  /\ c \in DOMAIN mock.calls
  /\ \E r \in MockDraws(Known(c)) : MockReturnRankedWith(c, r)

\* (mutation) the wins and losses of the player left as they were
applyRankedInfoKeepScore(player, info) ==
  [player EXCEPT
     !.tier = info.tier, !.division = info.rank, !.lp = info.leaguePoints,
     !.lastUpdated = info.lastUpdated,
     !.summonerId = info.summonerId, !.summonerLevel = info.summonerLevel,
     !.veteran = info.veteran, !.inactive = info.inactive,
     !.freshBlood = info.freshBlood, !.hotStreak = info.hotStreak]

\* the assignments of updatePlayerWithApiData to the player object
applyRankedInfo(player, info) ==
  [player EXCEPT
     !.tier = info.tier, !.division = info.rank, !.lp = info.leaguePoints,
     !.wins = info.wins, !.losses = info.losses,
     !.lastUpdated = info.lastUpdated,
     !.summonerId = info.summonerId, !.summonerLevel = info.summonerLevel,
     !.veteran = info.veteran, !.inactive = info.inactive,
     !.freshBlood = info.freshBlood, !.hotStreak = info.hotStreak]

\* MockRiotApiClient.updatePlayerWithApiData(player): up to the sleep of the
\* getPlayerRankedInfo it calls
MockStartUpdate(p) ==
  MockCallOn("updatePlayerWithApiData", players[p].riotId, 500, p)

\* MockRiotApiClient.updatePlayerWithApiData from the end of that sleep: the
\* rest of getPlayerRankedInfo, then the assignments to the player; r holds
\* the values of Math.random()
MockReturnUpdateWith(c, r) ==
  /\ c \in DOMAIN mock.calls
  /\ \A d \in DOMAIN mock.calls : mock.calls[c].wake <= mock.calls[d].wake
  /\ mock.calls[c].fn = "updatePlayerWithApiData"
  /\ clock' = Max(clock, mock.calls[c].wake)
  /\ LET p == mock.calls[c].player
         res == mockGetPlayerRankedInfo(mock.data, mock.calls[c].riotId, r,
                                        clock')
         updated == applyRankedInfo(players[p], res.value)
     IN  /\ players' = [players EXCEPT ![p] = updated]
         /\ mock' = [mock EXCEPT
                       !.data = res.data,
                       !.calls = RemoveAt(@, c),
                       !.out = [fn |-> "updatePlayerWithApiData",
                                key |-> res.key, value |-> updated]]
  /\ UNCHANGED <<apiKey, requestQueue, isProcessing, lastRequestTime,
                 requestsThisSecond, requestsThisMinute, minuteResetTime,
                 loops, server, nextId, dispatched, fetchLog, responses,
                 settled, inFlight, reqLeft, idleLeft>>
  /\ UNCHANGED <<call, ops, useMockApi, mgrCall, opsLeft>>

\* MockRiotApiClient.isPlayerInGame from the end of its sleep
MockReturnInGame(c) ==
  /\ MockTimerFires(c)
  /\ mock.calls[c].fn = "isPlayerInGame"
  /\ \E r \in RandomInGame :
       mock' = [mock EXCEPT
                  !.calls = RemoveAt(@, c),
                  !.out = [fn |-> "isPlayerInGame", key |-> "",
                           value |-> r < 100]]

\* the ApiManager after construction, and MaxMockCalls calls to come
InitMock ==
  /\ Constructed
  /\ server = [status : ServerStatuses, latency : {0}, body : Bodies]
  /\ reqLeft = 0
  /\ idleLeft = 0
  /\ call = NoCall
  /\ ops = << >>
  /\ players = << >>
  /\ useMockApi = ~hasApiKey(apiKey)
  /\ mgrCall = NoMgrCall
  /\ opsLeft = 0
  /\ mock = [MockConstructed EXCEPT !.left = MaxMockCalls]

NextMock ==
  \/ \E riotId \in MockIds : MockStartRanked(riotId)
  \/ MockStartInGame
  \/ \E c \in DOMAIN mock.calls : MockReturnRanked(c)
  \/ \E c \in DOMAIN mock.calls : MockReturnInGame(c)

SpecMock == InitMock /\ [][NextMock]_vars

\* lookups of one player under names that differ in letter case and tagline
CaseIds == {"Foo#NA1", "fOO#EUW"}

NextMockCase ==
  \/ \E riotId \in CaseIds : MockStartRanked(riotId)
  \/ \E c \in DOMAIN mock.calls : MockReturnRanked(c)

SpecMockCase == InitMock /\ [][NextMockCase]_vars

\* ------------------------------------------------------------ ApiConfig
baseUrls == [americas |-> "https://americas.api.riotgames.com",
             asia     |-> "https://asia.api.riotgames.com",
             europe   |-> "https://europe.api.riotgames.com"]

endpoints ==
  [account   |-> "/riot/account/v1/accounts/by-riot-id/{gameName}/{tagLine}",
   summoner  |-> "/lol/summoner/v4/summoners/by-puuid/{puuid}",
   league    |-> "/lol/league/v4/entries/by-summoner/{summonerId}",
   spectator |-> "/lol/spectator/v4/active-games/by-summoner/{summonerId}"]

\* ----------------------------------------------------------- URL builders

\* position of the first occurrence of the string pat in s, 0 if none
IndexOfSub(s, pat) ==
  LET at == { i \in 1..(Len(s) - Len(pat) + 1) :
                SubSeq(s, i, i + Len(pat) - 1) = pat }
  IN  IF at = {} THEN 0 ELSE CHOOSE i \in at : \A j \in at : i <= j

\* String(v): what a template literal or replace() makes of a value
Str(v) == IF v = Undefined THEN "undefined" ELSE v

\* String.prototype.replace with a string pattern: the first occurrence only
replace(s, pat, val) ==
  LET i == IndexOfSub(s, pat)
  IN  IF i = 0 THEN s
      ELSE SubSeq(s, 1, i - 1) \o Str(val) \o SubSeq(s, i + Len(pat), Len(s))

\* the escape of one character
EncodeChar(c) ==
  CASE c = " " -> "%20"
    [] c = "#" -> "%23"
    [] c = "/" -> "%2F"
    [] c = "{" -> "%7B"
    [] c = "}" -> "%7D"
    [] OTHER   -> c

RECURSIVE EncodeString(_)
EncodeString(s) ==
  IF s = "" THEN ""
  ELSE EncodeChar(SubSeq(s, 1, 1)) \o EncodeString(SubSeq(s, 2, Len(s)))

encodeURIComponent(v) == EncodeString(Str(v))

\* (mutation) the account lookup on another cluster
AccountRegionEurope == "europe"

\* const region = 'americas' of getAccountByRiotId
AccountRegion == "americas"

\* the URL getAccountByRiotId hands to makeRequest
getAccountByRiotId(gameName, tagLine) ==
  baseUrls[AccountRegion]
    \o replace(replace(endpoints.account,
                       "{gameName}", encodeURIComponent(gameName)),
               "{tagLine}", encodeURIComponent(tagLine))

\* (mutation) the summoner step asking the league endpoint
getSummonerByPuuidLeague(puuid, region) ==
  "https://" \o Str(region) \o ".api.riotgames.com"
    \o replace(endpoints.league, "{summonerId}", puuid)

\* the URL getSummonerByPuuid hands to makeRequest
getSummonerByPuuid(puuid, region) ==
  "https://" \o Str(region) \o ".api.riotgames.com"
    \o replace(endpoints.summoner, "{puuid}", puuid)

\* the URL getLeagueEntriesBySummonerId hands to makeRequest
getLeagueEntriesBySummonerId(summonerId, region) ==
  "https://" \o Str(region) \o ".api.riotgames.com"
    \o replace(endpoints.league, "{summonerId}", summonerId)

\* the URL getCurrentGameBySummonerId hands to makeRequest
getCurrentGameBySummonerId(summonerId, region) ==
  "https://" \o Str(region) \o ".api.riotgames.com"
    \o replace(endpoints.spectator, "{summonerId}", summonerId)

\* ------------------------------------------------- what the upstream holds
LookupIds == {"Foo#NA1", "Mr X#EUW", "NoSeparator"}  \* riotId arguments
Regions == {"na1", "euw1"}                           \* region arguments
LookupStatuses == {200, 404, 502}        \* statuses answered to a lookup

\* the JSON documents of the 200 answers
AccountDoc(gameName, tagLine) == [puuid |-> "P-" \o Str(gameName)]
SummonerDoc(puuid) ==
  [id |-> "S-" \o Str(puuid), name |-> "N-" \o Str(puuid), summonerLevel |-> 30]

Entry(queueType, tier, lp) ==
  [queueType |-> queueType, tier |-> tier, rank |-> "II", leaguePoints |-> lp,
   wins |-> 10, losses |-> 7, veteran |-> FALSE, inactive |-> FALSE,
   freshBlood |-> TRUE, hotStreak |-> FALSE]

Flex == Entry("RANKED_FLEX_SR", "GOLD", 12)
Solo == Entry("RANKED_SOLO_5x5", "SILVER", 40)
SoloAgain == Entry("RANKED_SOLO_5x5", "BRONZE", 99)

EntryLists == { << >>, << Flex >>, << Flex, Solo >>, << Solo, SoloAgain >> }

\* the body of a 200 answer of the spectator endpoint: a game, or JSON null
GameDocs == { [isNull |-> FALSE, gameId |-> 1], [isNull |-> TRUE, gameId |-> 0] }

\* ----------------------------------------------------------------- lookups
\* One call of getPlayerRankedInfo or isPlayerInGame is a record of ops:
\* kind says which, pc where it awaits, reqs what it handed to makeRequest.
NoAccount == [puuid |-> Undefined]
NoSummoner == [id |-> Undefined, name |-> Undefined, summonerLevel |-> 0]
NoLeague == [received |-> FALSE, entries |-> << >>]

NewOp(kind, riotId, region, p) ==
  [kind |-> kind, riotId |-> riotId, region |-> region, player |-> p,
   pc |-> "start", reqs |-> << >>, account |-> NoAccount,
   summoner |-> NoSummoner, league |-> NoLeague, out |-> NotCalled]

PlayerObjects ==
  { [riotId |-> "Foo#NA1", region |-> "na1", summonerId |-> Undefined],
    [riotId |-> "Foo#NA1", region |-> "euw1", summonerId |-> "S-known"] }

\* (mutation) the first entry, whatever its queue
findSoloQueueFirst(entries) == IF entries = << >> THEN 0 ELSE 1

\* leagueEntries.find(entry => entry.queueType === 'RANKED_SOLO_5x5'):
\* the index of the first such entry, 0 if there is none
findSoloQueue(entries) ==
  LET at == { i \in DOMAIN entries :
                entries[i].queueType = "RANKED_SOLO_5x5" }
  IN  IF at = {} THEN 0 ELSE CHOOSE i \in at : \A j \in at : i <= j

\* the record getPlayerRankedInfo returns; lastUpdated is the time in ms
rankedInfo(summonerData, soloQueue, t) ==
  [summonerId |-> summonerData.id, summonerName |-> summonerData.name,
   summonerLevel |-> summonerData.summonerLevel,
   tier |-> soloQueue.tier, rank |-> soloQueue.rank,
   leaguePoints |-> soloQueue.leaguePoints,
   wins |-> soloQueue.wins, losses |-> soloQueue.losses,
   veteran |-> soloQueue.veteran, inactive |-> soloQueue.inactive,
   freshBlood |-> soloQueue.freshBlood, hotStreak |-> soloQueue.hotStreak,
   lastUpdated |-> t]

\* (mutation) the league entries asked for right after the account
AfterAccountLeague(op) ==
  [pc |-> "league",
   url |-> getLeagueEntriesBySummonerId(op.summoner.id, op.region)]

\* step 2 of getPlayerRankedInfo, entered with accountData
AfterAccount(op) ==
  [pc |-> "summoner", url |-> getSummonerByPuuid(op.account.puuid, op.region)]

\* (mutation) the error swallowed, what is known so far returned
getPlayerRankedInfoCatchPartial(op, message) ==
  [op EXCEPT !.pc = "done",
             !.out = [state |-> "returned",
                      value |-> [summonerId |-> op.summoner.id]]]

\* catch of getPlayerRankedInfo: console.error, throw error
getPlayerRankedInfoCatch(op, message) ==
  [op EXCEPT !.pc = "failed", !.out = [state |-> "thrown", value |-> message]]

\* catch of updatePlayerWithApiData around the awaited getPlayerRankedInfo:
\* console.error, throw error
updatePlayerWithApiDataCatch(inner) ==
  IF inner.out.state = "thrown"
  THEN [inner EXCEPT !.pc = "failed",
                     !.out = [state |-> "thrown", value |-> inner.out.value]]
  ELSE inner

\* catch of isPlayerInGame
isPlayerInGameCatch(op, message) ==
  IF Includes(message, "404")
  THEN [op EXCEPT !.pc = "done", !.out = [state |-> "returned", value |-> FALSE]]
  ELSE [op EXCEPT !.pc = "failed", !.out = [state |-> "thrown", value |-> message]]

\* an error thrown where op awaits: it passes the catch blocks around it
Failed(op, message) ==
  IF op.kind = "ranked" THEN getPlayerRankedInfoCatch(op, message)
  ELSE IF op.kind = "update"
  THEN updatePlayerWithApiDataCatch(getPlayerRankedInfoCatch(op, message))
  ELSE IF op.pc = "game" THEN isPlayerInGameCatch(op, message)
  ELSE LET inner == getPlayerRankedInfoCatch(op, message)
       IN  IF inner.out.state = "thrown"
           THEN isPlayerInGameCatch(op, inner.out.value)
           ELSE inner

\* the promise op awaits is settled: its continuation is a ready microtask
Ready(op) ==
  /\ op.out.state = "pending"
  /\ op.reqs # << >>
  /\ \E k \in DOMAIN settled : settled[k].id = op.reqs[Len(op.reqs)].id

NoReadyOp == \A o \in DOMAIN ops : ~Ready(ops[o])

Answer(op) ==
  settled[CHOOSE k \in DOMAIN settled : settled[k].id = op.reqs[Len(op.reqs)].id]

\* op calls makeRequest(url) and awaits the promise at pc
Await(o, op, pc, url) ==
  /\ makeRequest(url)
  /\ LET waiting == [op EXCEPT !.pc = pc,
                               !.reqs = Append(@, [id |-> nextId, url |-> url])]
     IN  ops' = IF o \in DOMAIN ops THEN [ops EXCEPT ![o] = waiting]
                ELSE Append(ops, waiting)

\* op returns or throws
Finish(o, op) ==
  /\ ops' = [ops EXCEPT ![o] = op]
  /\ UNCHANGED schedVars

\* getPlayerRankedInfo up to its first await
StartRanked(kind, riotId, region, p) ==
  LET parsed == parseRiotId(riotId)
  IN  Await(Len(ops) + 1, NewOp(kind, riotId, region, p), "account",
            getAccountByRiotId(parsed.gameName, parsed.tagLine))

\* getPlayerRankedInfo(riotId, region) of the RiotApiClient: from the call to
\* the first await
getPlayerRankedInfo(riotId, region) ==
  /\ opsLeft > 0
  /\ NoReadyOp
  /\ StartRanked("ranked", riotId, region, 0)
  /\ opsLeft' = opsLeft - 1
  /\ UNCHANGED <<call, players, useMockApi, mgrCall, mock>>

\* isPlayerInGame(player) of the RiotApiClient: from the call to the first
\* await
isPlayerInGame(p) ==
  /\ opsLeft > 0
  /\ NoReadyOp
  /\ IF ~Truthy(players[p].summonerId)
     THEN StartRanked("inGame", players[p].riotId, players[p].region, p)
     ELSE Await(Len(ops) + 1,
                NewOp("inGame", players[p].riotId, players[p].region, p),
                "game",
                getCurrentGameBySummonerId(players[p].summonerId,
                                           players[p].region))
  /\ opsLeft' = opsLeft - 1
  /\ UNCHANGED <<call, players, useMockApi, mgrCall, mock>>

\* updatePlayerWithApiData(player) of the RiotApiClient: from the call to
\* the first await of the getPlayerRankedInfo it calls
updatePlayerWithApiData(p) ==
  /\ opsLeft > 0
  /\ NoReadyOp
  /\ StartRanked("update", players[p].riotId, players[p].region, p)
  /\ opsLeft' = opsLeft - 1
  /\ UNCHANGED <<call, players, useMockApi, mgrCall, mock>>

\* the awaited request was rejected
ResumeFailed(o) ==
  /\ Ready(ops[o])
  /\ ~Answer(ops[o]).ok
  /\ Finish(o, Failed(ops[o], Answer(ops[o]).val))
  /\ UNCHANGED <<call, players, useMockApi, mgrCall, opsLeft, mock>>

\* accountData arrived
ResumeAccount(o) ==
  /\ Ready(ops[o])
  /\ Answer(ops[o]).ok
  /\ ops[o].pc = "account"
  /\ LET parsed == parseRiotId(ops[o].riotId)
         op == [ops[o] EXCEPT
                  !.account = AccountDoc(parsed.gameName, parsed.tagLine)]
         next == AfterAccount(op)
     IN  Await(o, op, next.pc, next.url)
  /\ UNCHANGED <<call, players, useMockApi, mgrCall, opsLeft, mock>>

\* summonerData arrived
ResumeSummoner(o) ==
  /\ Ready(ops[o])
  /\ Answer(ops[o]).ok
  /\ ops[o].pc = "summoner"
  /\ LET op == [ops[o] EXCEPT !.summoner = SummonerDoc(ops[o].account.puuid)]
     IN  Await(o, op, "league",
               getLeagueEntriesBySummonerId(op.summoner.id, op.region))
  /\ UNCHANGED <<call, players, useMockApi, mgrCall, opsLeft, mock>>

\* (mutation) the id not stored on the player
ResumeLeagueNoStore(o, entries) ==
  /\ Ready(ops[o])
  /\ Answer(ops[o]).ok
  /\ ops[o].pc = "league"
  /\ LET op == [ops[o] EXCEPT !.league = [received |-> TRUE, entries |-> entries]]
         i == findSoloQueue(entries)
         info == rankedInfo(op.summoner, entries[i], clock)
     IN  IF i = 0
         THEN /\ Finish(o, Failed(op, "No ranked solo queue data found"))
              /\ UNCHANGED players
         ELSE IF op.kind = "ranked"
         THEN /\ Finish(o, [op EXCEPT !.pc = "done",
                                      !.out = [state |-> "returned",
                                               value |-> info]])
              /\ UNCHANGED players
         ELSE IF op.kind = "update"
         THEN LET updated == applyRankedInfo(players[op.player], info)
              IN  /\ players' = [players EXCEPT ![op.player] = updated]
                  /\ Finish(o, [op EXCEPT !.pc = "done",
                                          !.out = [state |-> "returned",
                                                   value |-> updated]])
         ELSE /\ UNCHANGED players
              /\ Await(o, op, "game",
                       getCurrentGameBySummonerId(info.summonerId,
                                                  players[op.player].region))
  /\ UNCHANGED <<call, useMockApi, mgrCall, opsLeft, mock>>

\* leagueEntries arrived: the rest of getPlayerRankedInfo and, inside
\* isPlayerInGame, the id stored on the player and the spectator request
ResumeLeague(o, entries) ==
  /\ Ready(ops[o])
  /\ Answer(ops[o]).ok
  /\ ops[o].pc = "league"
  /\ LET op == [ops[o] EXCEPT !.league = [received |-> TRUE, entries |-> entries]]
         i == findSoloQueue(entries)
         info == rankedInfo(op.summoner, entries[i], clock)
     IN  IF i = 0
         THEN /\ Finish(o, Failed(op, "No ranked solo queue data found"))
              /\ UNCHANGED players
         ELSE IF op.kind = "ranked"
         THEN /\ Finish(o, [op EXCEPT !.pc = "done",
                                      !.out = [state |-> "returned",
                                               value |-> info]])
              /\ UNCHANGED players
         ELSE IF op.kind = "update"
         THEN LET updated == applyRankedInfo(players[op.player], info)
              IN  /\ players' = [players EXCEPT ![op.player] = updated]
                  /\ Finish(o, [op EXCEPT !.pc = "done",
                                          !.out = [state |-> "returned",
                                                   value |-> updated]])
         ELSE /\ players' = [players EXCEPT
                               ![op.player].summonerId = info.summonerId]
              /\ Await(o, op, "game",
                       getCurrentGameBySummonerId(info.summonerId,
                                                  players[op.player].region))
  /\ UNCHANGED <<call, useMockApi, mgrCall, opsLeft, mock>>

\* gameData arrived: return gameData !== null
ResumeGame(o, gameData) ==
  /\ Ready(ops[o])
  /\ Answer(ops[o]).ok
  /\ ops[o].pc = "game"
  /\ Finish(o, [ops[o] EXCEPT !.pc = "done",
                              !.out = [state |-> "returned",
                                       value |-> ~gameData.isNull]])
  /\ UNCHANGED <<call, players, useMockApi, mgrCall, opsLeft, mock>>

\* (mutation) the key stored, the mode left as it was
ApiManagerSetApiKeyKeepMode(k) ==
  /\ apiKey' = k
  /\ useMockApi' = useMockApi
  /\ mgrCall' = [op |-> "setApiKey", arg |-> k, thrown |-> "",
                 was |-> useMockApi]
  /\ UNCHANGED <<requestQueue, isProcessing, lastRequestTime,
                 requestsThisSecond, requestsThisMinute, minuteResetTime,
                 loops, clock, server, nextId, dispatched, fetchLog, responses,
                 settled, inFlight, reqLeft, idleLeft>>
  /\ UNCHANGED <<call, ops, players, opsLeft, mock>>

\* ApiManager.setApiKey(k); was is the mode before the call
ApiManagerSetApiKey(k) ==
  /\ apiKey' = k
  /\ useMockApi' = FALSE
  /\ mgrCall' = [op |-> "setApiKey", arg |-> k, thrown |-> "",
                 was |-> useMockApi]
  /\ UNCHANGED <<requestQueue, isProcessing, lastRequestTime,
                 requestsThisSecond, requestsThisMinute, minuteResetTime,
                 loops, clock, server, nextId, dispatched, fetchLog, responses,
                 settled, inFlight, reqLeft, idleLeft>>
  /\ UNCHANGED <<call, ops, players, opsLeft, mock>>

\* ApiManager.useMock()
useMock ==
  /\ useMockApi' = TRUE
  /\ mgrCall' = [op |-> "useMock", arg |-> "", thrown |-> "",
                 was |-> useMockApi]
  /\ UNCHANGED schedVars
  /\ UNCHANGED <<call, ops, players, opsLeft, mock>>

\* (mutation) the real client forced without looking at the key
useRealUnchecked ==
  /\ useMockApi' = FALSE
  /\ mgrCall' = [op |-> "useReal", arg |-> "", thrown |-> "",
                 was |-> useMockApi]
  /\ UNCHANGED schedVars
  /\ UNCHANGED <<call, ops, players, opsLeft, mock>>

\* ApiManager.useReal()
useReal ==
  /\ IF hasApiKey(apiKey)
     THEN /\ useMockApi' = FALSE
          /\ mgrCall' = [op |-> "useReal", arg |-> "", thrown |-> "",
                         was |-> useMockApi]
     ELSE /\ useMockApi' = useMockApi
          /\ mgrCall' = [op |-> "useReal", arg |-> "",
                         thrown |-> "No API key set for real API client",
                         was |-> useMockApi]
  /\ UNCHANGED schedVars
  /\ UNCHANGED <<call, ops, players, opsLeft, mock>>

\* ApiManager.getCurrentClient()
getCurrentClient == IF useMockApi THEN "mockClient" ELSE "realClient"

\* MockRiotApiClient.hasApiKey() and getApiKey()
mockHasApiKey == TRUE
mockGetApiKey == "mock_api_key"

\* RiotApiClient.getApiKey()
getApiKey == apiKey

\* (mutation) the introspection always asking the real client
ApiManagerHasApiKeyReal == hasApiKey(apiKey)

\* ApiManager.hasApiKey(): the answer of the current client
ApiManagerHasApiKey ==
  IF getCurrentClient = "mockClient" THEN mockHasApiKey ELSE hasApiKey(apiKey)

\* ApiManager.getApiKey(): the answer of the current client
ApiManagerGetApiKey ==
  IF getCurrentClient = "mockClient" THEN mockGetApiKey ELSE getApiKey

\* a call of ApiManager.hasApiKey(); arg is the client it was delegated to
CallApiManagerHasApiKey ==
  /\ call' = [fn |-> "ApiManager.hasApiKey", arg |-> getCurrentClient,
              out |-> [state |-> "returned", value |-> ApiManagerHasApiKey]]
  /\ call' # call
  /\ UNCHANGED schedVars
  /\ UNCHANGED <<ops, players, useMockApi, mgrCall, opsLeft, mock>>

\* a call of ApiManager.getApiKey(); arg is the client it was delegated to
CallApiManagerGetApiKey ==
  /\ call' = [fn |-> "ApiManager.getApiKey", arg |-> getCurrentClient,
              out |-> [state |-> "returned", value |-> ApiManagerGetApiKey]]
  /\ call' # call
  /\ UNCHANGED schedVars
  /\ UNCHANGED <<ops, players, useMockApi, mgrCall, opsLeft, mock>>

InitLookup ==
  /\ Constructed
  /\ server = [status : LookupStatuses, latency : {0}, body : Bodies]
  /\ reqLeft = 4 * MaxOps
  /\ idleLeft = 0
  /\ call = NoCall
  /\ ops = << >>
  /\ players \in { << p >> : p \in PlayerObjects }
  /\ useMockApi = Null
  /\ mgrCall = NoMgrCall
  /\ opsLeft = MaxOps
  /\ mock = NoMock

Resume ==
  \E o \in DOMAIN ops :
    \/ ResumeFailed(o)
    \/ ResumeAccount(o)
    \/ ResumeSummoner(o)
    \/ \E entries \in EntryLists : ResumeLeague(o, entries)
    \/ \E gameData \in GameDocs : ResumeGame(o, gameData)

NextLookup ==
  \/ \E r \in LookupIds, g \in Regions : getPlayerRankedInfo(r, g)
  \/ \E p \in DOMAIN players : isPlayerInGame(p)
  \/ Resume
  \/ NoReadyOp /\ LoopStep

SpecLookup == InitLookup /\ [][NextLookup]_vars

\* player objects that hold the values of an earlier update
StoredPlayers ==
  { [riotId |-> "Foo#NA1", region |-> "na1", summonerId |-> id,
     tier |-> "IRON", division |-> "IV", lp |-> 5, wins |-> 1,
     losses |-> 2, lastUpdated |-> 1, summonerLevel |-> 5,
     veteran |-> TRUE, inactive |-> TRUE, freshBlood |-> FALSE,
     hotStreak |-> TRUE] : id \in {Undefined, "S-old"} }

\* MaxUpdates calls of updatePlayerWithApiData on one player object
InitUpdate ==
  /\ Constructed
  /\ server = [status : LookupStatuses, latency : {0}, body : Bodies]
  /\ reqLeft = 3 * MaxUpdates
  /\ idleLeft = 0
  /\ call = NoCall
  /\ ops = << >>
  /\ players \in { << p >> : p \in StoredPlayers }
  /\ useMockApi = Null
  /\ mgrCall = NoMgrCall
  /\ opsLeft = MaxUpdates
  /\ mock = NoMock

NextUpdate ==
  \/ \E p \in DOMAIN players : updatePlayerWithApiData(p)
  \/ \E o \in DOMAIN ops : ResumeFailed(o)
  \/ \E o \in DOMAIN ops : ResumeAccount(o)
  \/ \E o \in DOMAIN ops : ResumeSummoner(o)
  \/ \E o \in DOMAIN ops : \E entries \in EntryLists : ResumeLeague(o, entries)
  \/ NoReadyOp /\ LoopStep

SpecUpdate == InitUpdate /\ [][NextUpdate]_vars

\* MaxRankedOps calls of getPlayerRankedInfo that may overlap
ConcurrentIds == {"Foo#NA1", "Mr X#EUW"}

InitConcurrent ==
  /\ Constructed
  /\ server = [status : LookupStatuses, latency : {0}, body : Bodies]
  /\ reqLeft = 3 * MaxRankedOps
  /\ idleLeft = 0
  /\ call = NoCall
  /\ ops = << >>
  /\ players = << >>
  /\ useMockApi = Null
  /\ mgrCall = NoMgrCall
  /\ opsLeft = MaxRankedOps
  /\ mock = NoMock

NextConcurrent ==
  \/ \E r \in ConcurrentIds : getPlayerRankedInfo(r, "na1")
  \/ \E o \in DOMAIN ops : ResumeFailed(o)
  \/ \E o \in DOMAIN ops : ResumeAccount(o)
  \/ \E o \in DOMAIN ops : ResumeSummoner(o)
  \/ \E o \in DOMAIN ops : \E entries \in EntryLists : ResumeLeague(o, entries)
  \/ NoReadyOp /\ LoopStep

SpecConcurrent == InitConcurrent /\ [][NextConcurrent]_vars

\* MaxGameChecks calls of isPlayerInGame on one player object
InitInGame ==
  /\ Constructed
  /\ server = [status : LookupStatuses, latency : {0}, body : Bodies]
  /\ reqLeft = 4 * MaxGameChecks
  /\ idleLeft = 0
  /\ call = NoCall
  /\ ops = << >>
  /\ players \in { << p >> : p \in PlayerObjects }
  /\ useMockApi = Null
  /\ mgrCall = NoMgrCall
  /\ opsLeft = MaxGameChecks
  /\ mock = NoMock

NextInGame ==
  \/ \E p \in DOMAIN players : isPlayerInGame(p)
  \/ Resume
  \/ NoReadyOp /\ LoopStep

SpecInGame == InitInGame /\ [][NextInGame]_vars

\* the ApiManager after construction, its realClient used for MaxMgrRequests
\* requests
\* ---- the three lookups called through the ApiManager
\* (mutation) getPlayerRankedInfo handed to the real client in either mode
ApiManagerGetPlayerRankedInfoReal(riotId, region) ==
  getPlayerRankedInfo(riotId, region)

\* ApiManager.getPlayerRankedInfo(riotId, region)
ApiManagerGetPlayerRankedInfo(riotId, region) ==
  IF getCurrentClient = "mockClient"
  THEN MockStartRanked(riotId)
  ELSE getPlayerRankedInfo(riotId, region)

\* ApiManager.updatePlayerWithApiData(player)
ApiManagerUpdatePlayerWithApiData(p) ==
  IF getCurrentClient = "mockClient"
  THEN MockStartUpdate(p)
  ELSE updatePlayerWithApiData(p)

\* ApiManager.isPlayerInGame(player)
ApiManagerIsPlayerInGame(p) ==
  IF getCurrentClient = "mockClient"
  THEN MockStartInGame
  ELSE isPlayerInGame(p)

\* the values of Math.random() of the calls made through the ApiManager:
\* no progression, or the largest one
SelectorDraws(known) ==
  { r \in MockDraws(known) :
      /\ r.level = 0
      /\ r.lp = 0
      /\ r.gate = 299 => r.dWins = 999 /\ r.dLosses = 999 /\ r.dLp = 999 }

\* the ApiManager constructed with no stored key, so with the mock client
\* current, and one player object; MaxSelectorCalls calls through the manager
\* to come, while the real client it holds is used directly
InitSelector ==
  /\ apiKey = Null
  /\ Constructed
  /\ server = [status : ServerStatuses, latency : {0}, body : Bodies]
  /\ reqLeft = MaxMgrRequests
  /\ idleLeft = 0
  /\ call = NoCall
  /\ ops = << >>
  /\ players \in { << p >> : p \in { q \in StoredPlayers :
                                           q.summonerId = Undefined } }
  /\ useMockApi = ~hasApiKey(apiKey)
  /\ mgrCall = NoMgrCall
  /\ opsLeft = MaxSelectorCalls
  /\ mock = [MockConstructed EXCEPT !.left = MaxSelectorCalls]

NextSelector ==
  \/ ApiManagerGetPlayerRankedInfo("Foo#NA1", "na1")
  \/ \E p \in DOMAIN players : ApiManagerUpdatePlayerWithApiData(p)
  \/ \E p \in DOMAIN players : ApiManagerIsPlayerInGame(p)
  \/ \E c \in DOMAIN mock.calls :
       \E r \in SelectorDraws(Known(c)) : MockReturnRankedWith(c, r)
  \/ \E c \in DOMAIN mock.calls :
       \E r \in SelectorDraws(Known(c)) : MockReturnUpdateWith(c, r)
  \/ \E c \in DOMAIN mock.calls : MockReturnInGame(c)
  \/ setApiKey("abc") /\ UNCHANGED ext
  \/ Submit
  \/ LoopStep

SpecSelector == InitSelector /\ [][NextSelector]_vars

InitManager ==
  /\ Constructed
  /\ server = [status : ServerStatuses, latency : {0}, body : Bodies]
  /\ reqLeft = MaxMgrRequests
  /\ idleLeft = 0
  /\ call = NoCall
  /\ ops = << >>
  /\ players = << >>
  /\ useMockApi = ~hasApiKey(apiKey)
  /\ mgrCall = NoMgrCall
  /\ opsLeft = 0
  /\ mock = MockConstructed

NextManager ==
  \/ \E k \in ApiKeys : ApiManagerSetApiKey(k)
  \/ useMock
  \/ useReal
  \/ CallApiManagerHasApiKey
  \/ CallApiManagerGetApiKey
  \/ Submit
  \/ LoopStep

SpecManager == InitManager /\ [][NextManager]_vars

\* ------------------------------------------------------------ properties
Last(q) == q[Len(q)]

\* dispatches (that reached fetch, when net) in the window of ms milliseconds
\* that ends with the latest dispatch; the logs only grow, so a bound on this
\* count in every reachable state is a bound for every rolling window
InWindow(ms, net) ==
  IF dispatched = << >> THEN 0
  ELSE Cardinality({ i \in DOMAIN dispatched :
                       /\ dispatched[i].at > Last(dispatched).at - ms
                       /\ (net => dispatched[i].fetch) })

SettleCount(id) == Cardinality({ k \in DOMAIN settled : settled[k].id = id })

RateLimitedMessage == handleApiError(429, [json |-> FALSE, message |-> ""])

\* C1: in any rolling 60-second window the drain loop hands at most
\* perMinute (100) requests to the transport, whatever the outcomes.  Stated
\* on the requests that reached fetch; it fails for them, so it fails for
\* the dispatches as a whole.
C1_PerMinuteRolling == InWindow(MinuteMs, TRUE) <= perMinute

\* C2: in any rolling 1-second window the drain loop hands at most
\* perSecond (20) requests to the transport, whatever the outcomes.
C2_PerSecondRolling == InWindow(SecondMs, FALSE) <= perSecond

\* 20 dispatches inside one second, the 20th of them just made
C2_Witness ==
  /\ InWindow(SecondMs, FALSE) = perSecond
  /\ \E i \in DOMAIN loops : loops[i].pc = "exec"

\* C3: requests are dispatched in the order of their makeRequest calls: the
\* k-th dispatch is the k-th submission.
C3_Fifo == \A k \in DOMAIN dispatched : dispatched[k].id = k

\* a request that was appended behind a waiting one has been dispatched,
\* after the two submitted before it
C3_Witness ==
  /\ Len(dispatched) >= 3
  /\ \E i \in DOMAIN loops : loops[i].pc = "exec" /\ loops[i].req.joined = "queued"

\* C4: at most one request is in flight, and a request is dispatched only
\* when the one dispatched before it has completed.
C4_OneInFlight ==
  [][ /\ Cardinality(inFlight') <= 1
      /\ (Len(dispatched') > Len(dispatched) => inFlight = {}) ]_vars

\* a request in flight, dispatched after an earlier one completed, with
\* another one waiting
C4_Witness ==
  /\ Cardinality(inFlight) = 1
  /\ settled # << >>
  /\ requestQueue # << >>

\* C5: at most one drain loop is alive, and a makeRequest call made while a
\* loop is alive (asleep on a rate window, awaiting the transport, or in the
\* inter-request delay) only appends to the queue.
C5_OneDrainLoop ==
  /\ [](Len(loops) <= 1)
  /\ [][ (nextId' # nextId /\ loops # << >>) =>
           /\ loops' = loops
           /\ Len(requestQueue') = Len(requestQueue) + 1
           /\ SubSeq(requestQueue', 1, Len(requestQueue)) = requestQueue
           /\ dispatched' = dispatched ]_vars

\* the loop is asleep on the per-second window and a request that was
\* submitted while a loop was alive is waiting
C5_Witness ==
  /\ Len(loops) = 1
  /\ loops[1].pc = "secSleep"
  /\ \E k \in DOMAIN requestQueue : requestQueue[k].joined # "idle"

\* C6: every submitted request is eventually settled, and never twice
\* (timers and transport calls complete: weak fairness of the loop's steps).
\* Settlements are only ever added, so "again and again every request
\* submitted so far has exactly one settlement" is the same as "each request
\* is eventually settled exactly once".
C6_SettledOnce ==
  /\ [](\A id \in 1..(nextId - 1) : SettleCount(id) <= 1)
  /\ []<>(\A id \in 1..(nextId - 1) : SettleCount(id) = 1)

\* a request submitted after the loop had emptied the queue, and before the
\* loop looked at the queue again, has been settled
C6_Witness ==
  \E i \in DOMAIN loops :
    /\ loops[i].pc = "delay"
    /\ loops[i].req.joined = "drained"
    /\ SettleCount(loops[i].req.id) = 1

\* C7: a transport failure rejects the request in flight and nothing else:
\* the queue is untouched and the drain loop goes on; every settlement is the
\* outcome of that request's own transport call.
C7_FailureIsolated ==
  /\ [](\A k \in DOMAIN settled :
          LET mine == { j \in DOMAIN responses : responses[j].id = settled[k].id }
          IN  /\ settled[k].ok => \E j \in mine : ResponseOk(responses[j].status)
              /\ \A j \in mine :
                    IF ResponseOk(responses[j].status)
                    THEN settled[k].ok \/ settled[k].val = NotJsonMessage
                    ELSE /\ ~settled[k].ok
                         /\ \E b \in Bodies : settled[k].val =
                               handleApiError(responses[j].status, b)
              /\ mine = {} =>
                    (~settled[k].ok /\ settled[k].val = "API key not set"))
  /\ [][ (Len(settled') > Len(settled) /\ ~Last(settled').ok) =>
           /\ settled' = Append(settled, Last(settled'))
           /\ inFlight = {Last(settled').id}
           /\ requestQueue' = requestQueue
           /\ isProcessing'
           /\ loops' # << >> ]_vars

\* a rejected request, and the request queued behind it resolved
C7_Witness ==
  \E k \in DOMAIN settled :
    /\ ~settled[k].ok
    /\ k + 1 \in DOMAIN settled
    /\ settled[k + 1].ok

\* C8: the two rate-window counters never exceed their limits.
C8_CountersBounded ==
  /\ requestsThisSecond <= perSecond
  /\ requestsThisMinute <= perMinute

\* both counters at their limits
C8_Witness ==
  /\ requestsThisSecond = perSecond
  /\ requestsThisMinute = perMinute

\* C9: a request dispatched while no credential is set makes no fetch call
\* and is rejected with the missing-key error.
C9_NoKeyNoFetch ==
  /\ [][ (Len(dispatched') > Len(dispatched) /\ ~hasApiKey(apiKey)) =>
           fetchLog' = fetchLog ]_vars
  /\ [](\A k \in DOMAIN settled :
          (\A j \in DOMAIN fetchLog : fetchLog[j].id # settled[k].id) =>
            (~settled[k].ok /\ settled[k].val = "API key not set"))

\* a request dispatched without a key has been rejected, no fetch made for it
C9_Witness ==
  \E k \in DOMAIN settled :
    /\ settled[k].val = "API key not set"
    /\ \A j \in DOMAIN fetchLog : fetchLog[j].id # settled[k].id
    /\ fetchLog # << >>

\* C10: no request is sent twice: each id is dispatched and fetched at most
\* once, a completion never puts a request back in the queue, and a 429
\* answer is a rejection with the rate-limit error.
C10_NoRetry ==
  /\ [](\A j, k \in DOMAIN dispatched : dispatched[j].id = dispatched[k].id => j = k)
  /\ [](\A j, k \in DOMAIN fetchLog : fetchLog[j].id = fetchLog[k].id => j = k)
  /\ [](\A j \in DOMAIN responses : \A k \in DOMAIN settled :
          (responses[j].status = 429 /\ settled[k].id = responses[j].id) =>
            (~settled[k].ok /\ settled[k].val = RateLimitedMessage))
  /\ [][ Len(responses') > Len(responses) => requestQueue' = requestQueue ]_vars

\* a 429 answer has been surfaced and the loop has gone on to the next request
C10_Witness ==
  \E k \in DOMAIN settled :
    /\ settled[k].val = RateLimitedMessage
    /\ Len(dispatched) > k

SepCount(s) == Cardinality({ i \in 1..Len(s) : SubSeq(s, i, i) = "#" })

ParseReturned == call.fn = "parseRiotId" /\ call.out.state = "returned"
ErrorReturned == call.fn = "handleApiError" /\ call.out.state = "returned"

\* C11: parseIdentity gives {name, tag} for a string with exactly one '#'
\* and fails with InvalidIdentity for every other string.
C11_ParseIdentity ==
  call.fn = "parseRiotId" /\ call.out.state # "pending" =>
    IF SepCount(call.arg) = 1
    THEN /\ call.out.state = "returned"
         /\ call.out.value.gameName \o "#" \o call.out.value.tagLine = call.arg
    ELSE call.out.state = "thrown"

\* the kind a caller can read from the error, which carries only a message
KindOf(message) ==
  CASE message = "Bad Request - Invalid parameters" -> "InvalidRequest"
    [] message = "Unauthorized - Invalid API key" -> "Unauthenticated"
    [] message = "Forbidden - API key expired or invalid" -> "Forbidden"
    [] message = "Not Found - Player not found" -> "NotFound"
    [] message = "Rate Limited - Too many requests" -> "RateLimited"
    [] message = "Internal Server Error - Riot API issue" -> "UpstreamInternal"
    [] message = "Service Unavailable - Riot API maintenance" -> "UpstreamUnavailable"
    [] OTHER -> "Unknown"

\* the kind the specification gives to a status
KindFor(status) ==
  CASE status = 400 -> "InvalidRequest"
    [] status = 401 -> "Unauthenticated"
    [] status = 403 -> "Forbidden"
    [] status = 404 -> "NotFound"
    [] status = 429 -> "RateLimited"
    [] status = 500 -> "UpstreamInternal"
    [] status = 503 -> "UpstreamUnavailable"
    [] OTHER -> "Unknown"

\* C14: each non-2xx status gives the error of its own kind, and a status
\* outside the seven named ones gives Unknown carrying that status.
C14_StatusKinds ==
  ErrorReturned =>
    /\ KindOf(call.out.value) = KindFor(call.arg.status)
    /\ KindFor(call.arg.status) = "Unknown" =>
         Includes(call.out.value, ToString(call.arg.status))

\* C15: the error's message is the server-supplied message when the body
\* is JSON with one; the status-specific message is used only otherwise.
C15_ServerMessageFirst ==
  ErrorReturned =>
    IF call.arg.body.json /\ call.arg.body.message # ""
    THEN call.out.value = call.arg.body.message
    ELSE call.out.value =
           handleApiError(call.arg.status, [json |-> FALSE, message |-> ""])

\* ---- helpers of the lookup properties
UrlKind(url) ==
  CASE Includes(url, "/riot/account/v1/accounts/by-riot-id/") -> "account"
    [] Includes(url, "/lol/summoner/v4/summoners/by-puuid/") -> "summoner"
    [] Includes(url, "/lol/league/v4/entries/by-summoner/") -> "league"
    [] Includes(url, "/lol/spectator/v4/active-games/by-summoner/") -> "spectator"
    [] OTHER -> "other"

StartsWith(s, prefix) ==
  Len(s) >= Len(prefix) /\ SubSeq(s, 1, Len(prefix)) = prefix

\* the status the upstream answered to request id, 0 if nothing was fetched
StatusOf(id) ==
  LET at == { j \in DOMAIN responses : responses[j].id = id }
  IN  IF at = {} THEN 0 ELSE responses[CHOOSE j \in at : TRUE].status

SettledOk(id) == \E k \in DOMAIN settled : settled[k].id = id /\ settled[k].ok
SettledFailed(id) == \E k \in DOMAIN settled : settled[k].id = id /\ ~settled[k].ok
MessageOf(id) == settled[CHOOSE k \in DOMAIN settled : settled[k].id = id].val

LastReq(op) == op.reqs[Len(op.reqs)]
Thrown(op, message) == op.out.state = "thrown" /\ op.out.value = message
ReturnedFalse(op) == op.out.state = "returned" /\ op.out.value = FALSE

\* C12: when the live-game request is answered 404, isInGame returns false;
\* when a request of getRankedInfo is answered 404, it fails with NotFound.
C12_NotFoundHandling ==
  \A o \in DOMAIN ops :
    LET op == ops[o]
    IN  op.out.state # "pending" /\ StatusOf(LastReq(op).id) = 404 =>
          /\ op.kind = "inGame" /\ UrlKind(LastReq(op).url) = "spectator" =>
               ReturnedFalse(op)
          /\ op.kind = "ranked" =>
               /\ op.out.state = "thrown"
               /\ KindOf(op.out.value) = "NotFound"

\* C13: isInGame returns false only for a NotFound failure; a failure of any
\* other kind (another status, no credential, no solo-ranked entry) is
\* thrown to the caller, whatever its message says.
C13_FalseOnlyForNotFound ==
  \A o \in DOMAIN ops :
    LET op == ops[o]
        failed == SettledFailed(LastReq(op).id)
        noRanked == op.league.received /\ findSoloQueue(op.league.entries) = 0
    IN  /\ op.kind = "inGame"
        /\ op.out.state # "pending"
        /\ \/ failed /\ StatusOf(LastReq(op).id) # 404
           \/ noRanked
        => op.out.state = "thrown"

RankedSteps == << "account", "summoner", "league" >>

\* C16: getRankedInfo hands its requests to the scheduler in the order
\* account, summoner, league, and each one only after the one before it was
\* resolved.
C16_SequentialSteps ==
  \A o \in DOMAIN ops :
    LET op == ops[o]
        n == Len(op.reqs)
    IN  op.kind = "ranked" =>
          /\ n <= 3
          /\ \A k \in 1..n :
               /\ UrlKind(op.reqs[k].url) = RankedSteps[k]
               /\ k < n => SettledOk(op.reqs[k].id)
               /\ \/ \E q \in DOMAIN requestQueue :
                       requestQueue[q].id = op.reqs[k].id
                  \/ \E d \in DOMAIN dispatched :
                       dispatched[d].id = op.reqs[k].id
          /\ n >= 2 => Includes(op.reqs[2].url, op.account.puuid)
          /\ n >= 3 => Includes(op.reqs[3].url, op.summoner.id)
          /\ op.out.state = "returned" => n = 3 /\ SettledOk(op.reqs[3].id)

C16_Witness ==
  \E o \in DOMAIN ops :
    /\ ops[o].kind = "ranked"
    /\ ops[o].out.state = "returned"
    /\ Len(ops[o].reqs) = 3

\* C17: when a request of getRankedInfo fails, the call fails with that same
\* error, no further request is handed to the scheduler, and nothing is
\* returned.
C17_FailurePropagates ==
  \A o \in DOMAIN ops :
    LET op == ops[o]
    IN  op.kind = "ranked" =>
          \A k \in DOMAIN op.reqs :
            SettledFailed(op.reqs[k].id) =>
              /\ k = Len(op.reqs)
              /\ op.out.state # "returned"
              /\ op.out.state = "thrown" =>
                   op.out.value = MessageOf(op.reqs[k].id)
              /\ op.out.state = "pending" => Ready(op)

C17_Witness ==
  \E o \in DOMAIN ops :
    /\ ops[o].kind = "ranked"
    /\ Len(ops[o].reqs) = 2
    /\ SettledFailed(ops[o].reqs[2].id)
    /\ Thrown(ops[o], MessageOf(ops[o].reqs[2].id))

\* C18: the account lookup goes to the americas cluster whatever the region
\* argument is; the summoner and league lookups go to the host of the
\* region argument.
C18_AccountOnFixedCluster ==
  \A o \in DOMAIN ops :
    \A k \in DOMAIN ops[o].reqs :
      LET url == ops[o].reqs[k].url
      IN  /\ UrlKind(url) = "account" =>
               StartsWith(url, "https://americas.api.riotgames.com/")
          /\ UrlKind(url) \in {"summoner", "league"} =>
               StartsWith(url, "https://" \o ops[o].region
                                 \o ".api.riotgames.com/")

C18_Witness ==
  \E o \in DOMAIN ops :
    /\ ops[o].kind = "ranked"
    /\ ops[o].region = "euw1"
    /\ Len(ops[o].reqs) = 3

IsSolo(entry) == entry.queueType = "RANKED_SOLO_5x5"

\* C19: getRankedInfo returns the values of the solo-ranked entry of the
\* league answer, and fails with NoRankedData when the answer has no such
\* entry, the empty list included.
C19_SoloEntrySelected ==
  \A o \in DOMAIN ops :
    LET op == ops[o]
        entries == op.league.entries
    IN  op.kind = "ranked" /\ op.league.received =>
          IF \E i \in DOMAIN entries : IsSolo(entries[i])
          THEN /\ op.out.state = "returned"
               /\ \E i \in DOMAIN entries :
                    /\ IsSolo(entries[i])
                    /\ op.out.value.tier = entries[i].tier
                    /\ op.out.value.rank = entries[i].rank
                    /\ op.out.value.leaguePoints = entries[i].leaguePoints
                    /\ op.out.value.wins = entries[i].wins
                    /\ op.out.value.losses = entries[i].losses
          ELSE Thrown(op, "No ranked solo queue data found")

C19_Witness ==
  \E o \in DOMAIN ops :
    /\ ops[o].kind = "ranked"
    /\ ops[o].league = [received |-> TRUE, entries |-> << Flex, Solo >>]
    /\ ops[o].out.state = "returned"
    /\ ops[o].out.value.tier = "SILVER"

\* C20: after setCredential("") the selector is in synthetic mode:
\* currentClient() is the synthetic provider.
C20_EmptyCredentialStaysSynthetic ==
  mgrCall.op = "setApiKey" /\ mgrCall.arg = "" =>
    getCurrentClient = "mockClient"

\* C21: whatever calls were made on the selector, when the real client holds
\* no credential currentClient() is the synthetic provider.
C21_NoCredentialNoRealClient ==
  ~hasApiKey(apiKey) => getCurrentClient = "mockClient"

\* C22: forceReal() without a credential fails with a configuration error
\* and leaves the mode as it was; with a credential it makes the real client
\* active.
C22_ForceReal ==
  mgrCall.op = "useReal" =>
    IF hasApiKey(apiKey)
    THEN mgrCall.thrown = "" /\ getCurrentClient = "realClient"
    ELSE /\ mgrCall.thrown = "No API key set for real API client"
         /\ useMockApi = mgrCall.was

C22_Witness ==
  /\ mgrCall.op = "useReal"
  /\ ~hasApiKey(apiKey)
  /\ mgrCall.thrown # ""
  /\ mgrCall.was
  /\ getCurrentClient = "mockClient"

\* C23: setCredential with a non-empty token makes the real client active
\* from any mode, and the real client holds that token.
C23_CredentialSwitchesToReal ==
  mgrCall.op = "setApiKey" /\ mgrCall.arg # "" =>
    /\ getCurrentClient = "realClient"
    /\ apiKey = mgrCall.arg

C23_Witness ==
  /\ mgrCall = [op |-> "setApiKey", arg |-> "abc", thrown |-> "", was |-> TRUE]
  /\ getCurrentClient = "realClient"
  /\ apiKey = "abc"

\* the tiers of RankUtils.tierValues and the divisions
TierEnumeration ==
  {"IRON", "BRONZE", "SILVER", "GOLD", "PLATINUM", "DIAMOND", "MASTER",
   "GRANDMASTER", "CHALLENGER"}
Divisions == {"IV", "III", "II", "I"}

MockRankedReturned == mock.out.fn = "getPlayerRankedInfo"

\* C24: every record the synthetic getRankedInfo returns has leaguePoints
\* in 0..100, a tier of the tier enumeration and a division of IV, III, II, I.
C24_MockRanges ==
  MockRankedReturned =>
    /\ mock.out.value.leaguePoints \in 0..100
    /\ mock.out.value.tier \in TierEnumeration
    /\ mock.out.value.rank \in Divisions

C24_Witness ==
  /\ MockRankedReturned
  /\ mock.out.key = "foo"
  /\ mock.out.value.leaguePoints = 100
  /\ mock.left = 0

\* C25: for one display name the wins and the losses returned by successive
\* synthetic getRankedInfo calls never decrease, and one call adds at most
\* 2 wins and at most 1 loss.
C25_MockMonotone ==
  /\ [](MockRankedReturned =>
          /\ mock.out.value.wins = mock.data[mock.out.key].wins
          /\ mock.out.value.losses = mock.data[mock.out.key].losses)
  /\ [][\A k \in DOMAIN mock.data :
          /\ k \in DOMAIN mock'.data
          /\ mock'.data[k].wins - mock.data[k].wins \in 0..2
          /\ mock'.data[k].losses - mock.data[k].losses \in 0..1]_vars

C25_Witness ==
  /\ MockRankedReturned
  /\ mock.out.key = "player0"
  /\ mock.out.value.wins = 16
  /\ mock.out.value.losses = 10

\* isPlayerInGame calls and their first request
InGameOps == { o \in DOMAIN ops : ops[o].kind = "inGame" }
FirstKind(op) == UrlKind(op.reqs[1].url)

\* C26: isInGame on a record that carries a summoner id hands exactly one
\* request, the live-game query, to the scheduler; on a record without one
\* it looks the id up and stores it on the record, so that a later isInGame
\* on that record does not look it up again.
C26_SummonerIdCached ==
  /\ [](\A o \in InGameOps :
          /\ FirstKind(ops[o]) = "spectator" => Len(ops[o].reqs) = 1
          /\ FirstKind(ops[o]) = "account" /\ Len(ops[o].reqs) = 4 =>
               /\ UrlKind(ops[o].reqs[4].url) = "spectator"
               /\ players[ops[o].player].summonerId = ops[o].summoner.id
               /\ Truthy(players[ops[o].player].summonerId))
  /\ [][/\ \A o \in DOMAIN ops' \ DOMAIN ops :
             ops'[o].kind = "inGame" =>
               FirstKind(ops'[o]) =
                 IF Truthy(players[ops'[o].player].summonerId)
                 THEN "spectator" ELSE "account"
        /\ \A p \in DOMAIN players :
             Truthy(players[p].summonerId) =>
               players'[p].summonerId = players[p].summonerId]_vars

C26_Witness ==
  /\ Len(ops) >= 2
  /\ ops[1].kind = "inGame" /\ ops[2].kind = "inGame"
  /\ ops[1].player = ops[2].player
  /\ FirstKind(ops[1]) = "account"
  /\ Len(ops[1].reqs) = 4
  /\ FirstKind(ops[2]) = "spectator"
  /\ ops[2].out.state = "returned"

\* ---- helpers of the drain-loop step properties
\* this step settles a request; this step dispatches one
Settles == Len(settled') = Len(settled) + 1
Dispatches == Len(dispatched') = Len(dispatched) + 1

\* this step runs the admission checks at the top of an iteration, at time
\* clock': processQueue starts a drain loop, or a drain loop comes back from
\* the inter-request delay and finds the queue non-empty
Admits ==
  \/ ~isProcessing /\ isProcessing'
  \/ \E i \in DOMAIN loops :
       /\ loops[i].pc = "delay"
       /\ i \in DOMAIN loops'
       /\ loops'[i].pc \in {"exec", "secSleep", "minSleep"}

\* C27: when a request's transport call succeeds the drain loop adds one to
\* each rate-window counter and sets the last-dispatch time to the time of
\* that moment; when it fails the two counters and the last-dispatch time
\* keep their values.
C27_CountersOnSuccessOnly ==
  [][Settles =>
       IF settled'[Len(settled')].ok
       THEN /\ requestsThisSecond' = requestsThisSecond + 1
            /\ requestsThisMinute' = requestsThisMinute + 1
            /\ lastRequestTime' = clock'
       ELSE UNCHANGED <<requestsThisSecond, requestsThisMinute,
                        lastRequestTime>>]_vars

C27_Witness ==
  /\ Len(settled) >= 2
  /\ settled[1].ok
  /\ ~settled[Len(settled)].ok
  /\ requestsThisSecond = 1
  /\ requestsThisMinute = 1
  /\ lastRequestTime > StartTime

\* C30: at admission, when the time is past the minute boundary the
\* per-minute counter becomes 0 and the boundary 60 s after that time;
\* otherwise this step changes neither.
C30_MinuteWindowReset ==
  [][Admits =>
       IF clock' > minuteResetTime
       THEN /\ requestsThisMinute' = 0
            /\ minuteResetTime' = clock' + MinuteMs
       ELSE UNCHANGED <<requestsThisMinute, minuteResetTime>>]_vars

C30_Witness ==
  /\ minuteResetTime > StartTime + MinuteMs
  /\ requestsThisMinute = 0
  /\ Len(settled) >= 1
  /\ settled[1].ok
  /\ \E i \in DOMAIN loops : loops[i].pc = "exec"

\* C28: a request dispatched by a step that starts with the per-minute
\* counter at its limit is dispatched at or after the minute boundary, and
\* that step leaves the counter at 0 and the boundary one minute after its
\* own time; while a drain loop is suspended for the minute limit the
\* counter is at the limit, the wake-up is not before the boundary and
\* nothing is in flight.
C28_MinuteLimitSuspends ==
  /\ [](\A i \in DOMAIN loops :
          loops[i].pc = "minSleep" =>
            /\ requestsThisMinute >= perMinute
            /\ loops[i].wake >= minuteResetTime
            /\ inFlight = {})
  /\ [][Dispatches /\ requestsThisMinute >= perMinute =>
          /\ clock' >= minuteResetTime
          /\ requestsThisMinute' = 0
          /\ minuteResetTime' = clock' + MinuteMs]_vars

C28_Witness ==
  /\ Len(dispatched) = perMinute + 1
  /\ dispatched[Len(dispatched)].at >= StartTime + MinuteMs
  /\ requestsThisMinute = 0
  /\ minuteResetTime = dispatched[Len(dispatched)].at + MinuteMs

\* C29: an admission less than 1000 ms after the last recorded dispatch
\* with the per-second counter at its limit dispatches nothing and suspends
\* the drain loop until 1000 ms after that recorded time, the counter kept;
\* while the loop is suspended nothing is in flight; the step that ends the
\* suspension is not before the wake-up time and leaves the counter at 0;
\* an admission 1000 ms or more after the last recorded dispatch leaves the
\* counter at 0 and does not suspend the loop for the second.
C29_SecondLimitSuspends ==
  /\ [](\A i \in DOMAIN loops :
          loops[i].pc = "secSleep" =>
            /\ requestsThisSecond >= perSecond
            /\ inFlight = {})
  /\ [][/\ (Admits /\ clock' - lastRequestTime < SecondMs
                    /\ requestsThisSecond >= perSecond) =>
             (/\ ~Dispatches
              /\ requestsThisSecond' = requestsThisSecond
              /\ \E i \in DOMAIN loops' :
                   /\ loops'[i].pc = "secSleep"
                   /\ loops'[i].wake =
                        clock' + (SecondMs - (clock' - lastRequestTime)))
        /\ (Admits /\ clock' - lastRequestTime >= SecondMs) =>
             (/\ requestsThisSecond' = 0
              /\ \A i \in DOMAIN loops' : loops'[i].pc # "secSleep")
        /\ \A i \in DOMAIN loops :
             (/\ loops[i].pc = "secSleep"
              /\ (i \in DOMAIN loops' => loops'[i].pc # "secSleep")) =>
               (/\ clock' >= loops[i].wake
                /\ requestsThisSecond' = 0)]_vars

\* a suspension for the second after an earlier pause of a second or more
\* had reset a counter that was not 0
C29_Witness ==
  /\ \E i \in DOMAIN loops :
       /\ loops[i].pc = "secSleep"
       /\ loops[i].wake = lastRequestTime + SecondMs
  /\ requestsThisSecond = perSecond
  /\ Cardinality({k \in DOMAIN settled : settled[k].ok}) = perSecond + 1

\* C31: the step that settles a request, resolved or rejected, leaves the
\* drain loop waiting until 50 ms after that step with the request no longer
\* in flight; the loop's next admission check is not before that time; any
\* two consecutive dispatches are at least 50 ms apart.
C31_InterRequestDelay ==
  /\ [](\A k \in 2..Len(dispatched) :
          dispatched[k].at - dispatched[k - 1].at >= InterRequestDelay)
  /\ [][/\ Settles =>
            (/\ ~Dispatches
             /\ \E i \in DOMAIN loops' :
                  /\ loops'[i].pc = "delay"
                  /\ loops'[i].wake = clock' + InterRequestDelay)
        /\ \A i \in DOMAIN loops :
             (/\ loops[i].pc = "delay"
              /\ (i \in DOMAIN loops' => loops'[i].pc # "delay")) =>
               clock' >= loops[i].wake]_vars

C31_Witness ==
  /\ Len(dispatched) >= 3
  /\ ~settled[1].ok
  /\ settled[2].ok
  /\ dispatched[2].at = dispatched[1].at + InterRequestDelay
  /\ dispatched[3].at > dispatched[2].at + InterRequestDelay

\* C32: isInGame on a record without a summoner id, for a player whose
\* account and summoner steps resolve and whose league entries hold no
\* solo-ranked entry, does not fail for the lack of that entry: when it has
\* finished it has made the live-game query.
C32_InGameWithoutRankedEntry ==
  \A o \in InGameOps :
    LET op == ops[o]
    IN  /\ op.out.state # "pending"
        /\ op.league.received
        /\ findSoloQueue(op.league.entries) = 0
        => /\ ~Thrown(op, "No ranked solo queue data found")
           /\ \E k \in DOMAIN op.reqs : UrlKind(op.reqs[k].url) = "spectator"

RequestIds(op) == { op.reqs[k].id : k \in DOMAIN op.reqs }

\* C33: getRankedInfo with an identity string that does not hold exactly one
\* '#' fails without handing any request to the scheduler, and no transport call
\* is made for it.
C33_MalformedIdentityFailsFirst ==
  \A o \in DOMAIN ops :
    LET op == ops[o]
    IN  op.kind = "ranked" /\ SepCount(op.riotId) # 1 =>
          /\ op.reqs = << >>
          /\ op.out.state = "thrown"
          /\ \A k \in DOMAIN fetchLog : fetchLog[k].id \notin RequestIds(op)

\* C36: in every state between two steps (a drain loop suspended, or a
\* makeRequest call returned) a non-empty queue comes with isProcessing set
\* and with a drain loop alive, and isProcessing is set exactly while a
\* drain loop is alive.
C36_QueuedImpliesProcessing ==
  /\ requestQueue # << >> => isProcessing /\ \E i \in DOMAIN loops : Alive(loops[i])
  /\ isProcessing <=> loops # << >>

C36_Witness ==
  /\ Len(requestQueue) >= 2
  /\ isProcessing
  /\ \E i \in DOMAIN loops : loops[i].pc = "delay"
  /\ settled # << >>

\* the requests of op that are not yet settled, and where a request stands
\* in the dispatch order (0: not dispatched)
Outstanding(op) ==
  { k \in DOMAIN op.reqs :
      \A j \in DOMAIN settled : settled[j].id # op.reqs[k].id }
DispatchIndex(id) ==
  LET at == { d \in DOMAIN dispatched : dispatched[d].id = id }
  IN  IF at = {} THEN 0 ELSE CHOOSE d \in at : TRUE

\* C37: with several getRankedInfo calls under way, each has at most one
\* request that is queued or in flight, and its own requests are dispatched
\* in the order account, summoner, league, each after the one before it was
\* settled, wherever the requests of the other calls fall between them.
C37_ConcurrentLookups ==
  \A o \in DOMAIN ops :
    LET op == ops[o]
    IN  op.kind = "ranked" =>
          /\ Cardinality(Outstanding(op)) <= 1
          /\ Len(op.reqs) <= 3
          /\ \A k \in DOMAIN op.reqs :
               /\ UrlKind(op.reqs[k].url) = RankedSteps[k]
               /\ k > 1 /\ DispatchIndex(op.reqs[k].id) > 0 =>
                    /\ DispatchIndex(op.reqs[k - 1].id) > 0
                    /\ DispatchIndex(op.reqs[k - 1].id)
                         < DispatchIndex(op.reqs[k].id)

\* two calls whose requests alternate in the dispatch order
C37_Witness ==
  /\ Len(ops) >= 2
  /\ Len(ops[1].reqs) = 3
  /\ Len(ops[2].reqs) = 3
  /\ DispatchIndex(ops[1].reqs[1].id) < DispatchIndex(ops[2].reqs[1].id)
  /\ DispatchIndex(ops[2].reqs[1].id) < DispatchIndex(ops[1].reqs[2].id)
  /\ DispatchIndex(ops[1].reqs[2].id) < DispatchIndex(ops[2].reqs[2].id)
  /\ DispatchIndex(ops[2].reqs[2].id) < DispatchIndex(ops[1].reqs[3].id)
  /\ DispatchIndex(ops[1].reqs[3].id) < DispatchIndex(ops[2].reqs[3].id)

\* update call o ends in this step by returning / by throwing
UpdateOps == { o \in DOMAIN ops : ops[o].kind = "update" }
Returns(o) == ops[o].out.state = "pending" /\ ops'[o].out.state = "returned"
Throws(o) == ops[o].out.state = "pending" /\ ops'[o].out.state = "thrown"

\* where each call stands: pending, returned or thrown
OutStates == [o \in DOMAIN ops |-> ops[o].out.state]

\* the record the getPlayerRankedInfo inside update call o returned
InfoOf(op, t) ==
  rankedInfo(op.summoner, op.league.entries[findSoloQueue(op.league.entries)], t)

\* C38: updateRecord on the real client changes the player object only in
\* the step in which it returns, and then every ranked field becomes the
\* value of the one record its getRankedInfo returned, the identity and the
\* region kept; a call that fails, at whichever step, changes no field.
C38_UpdateAllOrNothing ==
  /\ [][/\ \E o \in UpdateOps : Returns(o)
        /\ \A o \in UpdateOps : ~Throws(o)]_players
  /\ [][\A o \in UpdateOps :
          Returns(o) =>
            LET info == InfoOf(ops'[o], clock')
                was == players[ops[o].player]
                now == players'[ops[o].player]
            IN  /\ now.tier = info.tier
                /\ now.division = info.rank
                /\ now.lp = info.leaguePoints
                /\ now.wins = info.wins
                /\ now.losses = info.losses
                /\ now.lastUpdated = info.lastUpdated
                /\ now.summonerId = info.summonerId
                /\ now.summonerLevel = info.summonerLevel
                /\ now.veteran = info.veteran
                /\ now.inactive = info.inactive
                /\ now.freshBlood = info.freshBlood
                /\ now.hotStreak = info.hotStreak
                /\ now.riotId = was.riotId
                /\ now.region = was.region
                /\ ops'[o].out.value = now]_OutStates

\* one call failed at the league step and left the stored values of the
\* call that returned before it
C38_Witness ==
  /\ Len(ops) = 2
  /\ ops[1].out.state = "returned"
  /\ ops[2].out.state = "thrown"
  /\ Len(ops[2].reqs) = 3
  /\ players[1] = ops[1].out.value
  /\ players[1].tier = "SILVER"
  /\ players[1].wins = 10

\* the key each display name of CaseIds is stored under
ExpectedKey == [n \in {"Foo", "fOO"} |-> "foo"]

\* C35: the synthetic provider stores one record per lowercased display
\* name: lookups of "Foo#NA1" and "fOO#EUW" return the values of the one
\* record "foo", a lookup changes no other record, and the tier and the
\* division of a stored record never change.
C35_MockKeyedByLowercaseName ==
  /\ [](/\ DOMAIN mock.data \subseteq DOMAIN initializeMockData \cup {"foo"}
        /\ MockRankedReturned =>
             /\ mock.out.key = ExpectedKey[mock.out.value.summonerName]
             /\ mock.out.value.tier = mock.data[mock.out.key].tier
             /\ mock.out.value.rank = mock.data[mock.out.key].rank
             /\ mock.out.value.wins = mock.data[mock.out.key].wins)
  /\ [][\A k \in DOMAIN mock.data :
          /\ k \in DOMAIN mock'.data
          /\ mock'.data[k].tier = mock.data[k].tier
          /\ mock'.data[k].rank = mock.data[k].rank
          /\ k # "foo" => mock'.data[k] = mock.data[k]]_vars

\* the record "foo" drawn at the top of its range and perturbed by two
\* lookups, the later one under the name "fOO"
C35_Witness ==
  /\ MockRankedReturned
  /\ mock.out.value.summonerName = "fOO"
  /\ mock.out.key = "foo"
  /\ "foo" \in DOMAIN mock.data
  /\ mock.data["foo"].wins = 54
  /\ mock.data["foo"].tier = "PLATINUM"

\* C39: whenever the synthetic provider is the current client, hasApiKey()
\* through the selector is true and getApiKey() through the selector is the
\* fixed mock token, whatever the real client holds; every such call that
\* was delegated to the synthetic provider returned these values.
C39_MockIntrospection ==
  /\ getCurrentClient = "mockClient" =>
       /\ ApiManagerHasApiKey = TRUE
       /\ ApiManagerGetApiKey = "mock_api_key"
  /\ call.fn = "ApiManager.hasApiKey" /\ call.arg = "mockClient" =>
       call.out.value = TRUE
  /\ call.fn = "ApiManager.getApiKey" /\ call.arg = "mockClient" =>
       call.out.value = "mock_api_key"

\* hasApiKey() answered true by a manager that never held a credential
C39_Witness ==
  /\ call.fn = "ApiManager.hasApiKey"
  /\ call.arg = "mockClient"
  /\ call.out.value = TRUE
  /\ ~hasApiKey(apiKey)
  /\ mgrCall = NoMgrCall
  /\ useMockApi = TRUE

\* a call through the selector starts in this step; a call delegated to the
\* synthetic provider returns in this step
SelectorCallStarts == opsLeft' < opsLeft \/ mock'.left < mock.left
MockCallReturns == Len(mock'.calls) < Len(mock.calls)
SchedulerKept ==
  UNCHANGED <<requestQueue, isProcessing, requestsThisSecond,
              requestsThisMinute, lastRequestTime, minuteResetTime, nextId,
              loops, dispatched, inFlight>>

\* C34: a getRankedInfo, updateRecord or isInGame call made through the
\* selector while the synthetic provider is current starts no lookup on the
\* real client, and neither its start nor its return changes the scheduler's
\* queue, counters, window times, isProcessing flag or drain loop.
C34_MockLeavesSchedulerAlone ==
  [][/\ (useMockApi = TRUE /\ SelectorCallStarts) =>
          (/\ SchedulerKept
           /\ opsLeft' = opsLeft
           /\ Len(mock'.calls) = Len(mock.calls) + 1)
     /\ MockCallReturns => SchedulerKept
    ]_<<opsLeft, mock.left, Len(mock.calls)>>

\* the synthetic updateRecord has written the player object while requests
\* of the real client were queued and counted
C34_Witness ==
  /\ useMockApi = TRUE
  /\ mock.out.fn = "updatePlayerWithApiData"
  /\ players[1].summonerId = "summoner_foo"
  /\ mock.left = 0
  /\ requestQueue # << >>
  /\ requestsThisMinute >= 1
  /\ isProcessing
====
